---- MODULE Spec2Model ----
(***************************************************************************)
(* The three supervisor loops of the repository (maker.py, fixer.py and    *)
(* claude_loop.py): the child process is spawned, its output lines are     *)
(* appended to the cumulative log, and after its exit the last line of the *)
(* log decides between stopping, a rate-limit sleep and a fresh restart.   *)
(*                                                                         *)
(* Modelling conventions                                                   *)
(*  - A JSON value is a record with a kind field k; a JSON object is a     *)
(*    TLA+ function from its keys to values, so `"result" in data` is      *)
(*    "result" \in DOMAIN data.f.                                          *)
(*  - A text is a sequence of tokens: a word, one space, one digit or one  *)
(*    punctuation character.  Words are indivisible.                       *)
(*  - A Python call that can raise returns a record whose field exc names  *)
(*    the exception ("none" when it returned normally).                    *)
(*  - The child terminates every line it writes with a newline, the local  *)
(*    time zone is UTC, time.sleep returns on time, and reset epochs stay  *)
(*    inside the range that datetime.fromtimestamp and time.sleep accept.  *)
(***************************************************************************)
EXTENDS Integers, Sequences, FiniteSets, TLC

VARIABLES
    script,                  \* which of the three programs runs
    single_iteration,        \* "--single" in sys.argv (maker.py, fixer.py)
    pc,                      \* position of main()
    continue_next,           \* the resume-next flag of main()
    log,                     \* OUTPUT_PATH: the lines of the cumulative log
    clock,                   \* time.time(), in seconds
    stats,                   \* the StatsTracker of maker.py / fixer.py
    current_iteration_lines, \* lines collected for usage parsing
    spawned,                 \* number of children spawned so far
    cmd,                     \* argument list of the latest child
    iter_start,              \* Len(log) when the latest child was spawned
    last_line,               \* what last_json_line returned at the latest boundary
    done,                    \* outcome of the completion check at the latest boundary
    reset_epoch,             \* outcome of rate_limit_reset_epoch at the latest boundary
    prev_reset,              \* reset_epoch of the boundary before the latest spawn
    current_epoch,           \* int(time.time()) read before the rate-limit sleep
    sleep_seconds,           \* duration handed to the rate-limit time.sleep
    exit_clock,              \* clock when the latest child exited
    slept,                   \* seconds of rate-limit sleep since the latest exit
    cooled,                  \* seconds of cooldown since the latest exit
    failure,                 \* the exception that ended main(), "none" otherwise
    current_stats,           \* the latest snapshot returned by stats.get_stats()
    children,                \* agent children started and not yet waited for
    interrupted,             \* a KeyboardInterrupt has been raised in main()
    jq,                      \* how the jq helper behaves (claude_loop.py)
    summary,                 \* what extract_summary_with_jq returned last
    final_stats              \* final_stats / single_stats: the snapshot printed
                             \* when main() leaves the loop

vars == <<script, single_iteration, pc, continue_next, log, clock, stats,
          current_iteration_lines, spawned, cmd, iter_start, last_line, done,
          reset_epoch, prev_reset, current_epoch, sleep_seconds, exit_clock,
          slept, cooled, failure, current_stats, children, interrupted, jq,
          summary, final_stats>>

-----------------------------------------------------------------------------
(* Bounds of the model *)

MaxLog == 3          \* lines the log may hold, the pre-existing ones included
MaxSpawns == 3       \* children spawned in one run
RunSeconds == 1      \* seconds a child runs

StartClocks == {7200, 18000}    \* the run starts at 02:00 or at 05:00

-----------------------------------------------------------------------------
(* JSON values, as json.loads returns them *)

JNull == [k |-> "null"]
JBool(b) == [k |-> "bool", b |-> b]
JInt(n) == [k |-> "int", n |-> n]
JStr(s) == [k |-> "str", s |-> s]
JList(xs) == [k |-> "list", items |-> xs]
JDict(f) == [k |-> "dict", f |-> f]
JInvalid == [k |-> "invalid"]      \* the text is not JSON: JSONDecodeError

\* Python truthiness of a JSON value
Truthy(v) ==
    CASE v.k = "null" -> FALSE
      [] v.k = "bool" -> v.b
      [] v.k = "int" -> v.n # 0
      [] v.k = "str" -> v.s # <<>>
      [] v.k = "list" -> v.items # <<>>
      [] v.k = "dict" -> DOMAIN v.f # {}
      [] OTHER -> FALSE

\* dict.get(key, default)
Get(d, key, default) == IF key \in DOMAIN d.f THEN d.f[key] ELSE default

-----------------------------------------------------------------------------
(* Texts *)

Max(a, b) == IF a >= b THEN a ELSE b

Digits == {"0", "1", "2", "3", "4", "5", "6", "7", "8", "9"}

DigitVal(t) ==
    CASE t = "0" -> 0 [] t = "1" -> 1 [] t = "2" -> 2 [] t = "3" -> 3
      [] t = "4" -> 4 [] t = "5" -> 5 [] t = "6" -> 6 [] t = "7" -> 7
      [] t = "8" -> 8 [] t = "9" -> 9

IsSpace(t) == t \in {" ", "\t"}

\* str.lower() of one token
Lower(t) ==
    CASE t \in {"Claude", "CLAUDE"} -> "claude"
      [] t \in {"Usage", "USAGE"} -> "usage"
      [] t \in {"Limit", "LIMIT"} -> "limit"
      [] t \in {"Reached", "REACHED"} -> "reached"
      [] t \in {"Resets", "RESETS"} -> "resets"
      [] t \in {"AM", "Am"} -> "am"
      [] t \in {"PM", "Pm"} -> "pm"
      [] t \in {"DONE", "Done"} -> "done"
      [] t \in {"ACTUALLY_WORKING", "Actually_Working"} -> "actually_working"
      [] OTHER -> t

\* str.upper() of one token
UpperOfLower(l, t) ==
    CASE l = "claude" -> "CLAUDE"
      [] l = "usage" -> "USAGE"
      [] l = "use" -> "USE"
      [] l = "limit" -> "LIMIT"
      [] l = "reached" -> "REACHED"
      [] l = "reach" -> "REACH"
      [] l = "resets" -> "RESETS"
      [] l = "am" -> "AM"
      [] l = "pm" -> "PM"
      [] l = "done" -> "DONE"
      [] l = "actually_working" -> "ACTUALLY_WORKING"
      [] l = "all" -> "ALL"
      [] l = "tasks" -> "TASKS"
      [] l = "complete" -> "COMPLETE"
      [] OTHER -> t

Upper(t) == UpperOfLower(Lower(t), t)

RECURSIVE LStrip(_)
LStrip(s) == IF s # <<>> /\ IsSpace(Head(s)) THEN LStrip(Tail(s)) ELSE s

RECURSIVE RStrip(_)
RStrip(s) ==
    IF s # <<>> /\ IsSpace(s[Len(s)]) THEN RStrip(SubSeq(s, 1, Len(s) - 1)) ELSE s

\* str.strip()
Strip(s) == RStrip(LStrip(s))

\* `sub in s` for a one-token sub
Contains(s, t) == \E i \in 1..Len(s) : s[i] = t

\* s.split(t, 1)[1] when t occurs in s
AfterFirst(s, t) ==
    LET i == CHOOSE j \in 1..Len(s) : s[j] = t /\ \A h \in 1..(j - 1) : s[h] # t
    IN  SubSeq(s, i + 1, Len(s))

RECURSIVE DigitsValue(_)
DigitsValue(s) ==
    IF s = <<>> THEN 0
    ELSE 10 * DigitsValue(SubSeq(s, 1, Len(s) - 1)) + DigitVal(s[Len(s)])

\* int(s): surrounding whitespace and one sign are accepted, anything else
\* than digits is a ValueError
PyInt(s) ==
    LET t == Strip(s)
        signed == t # <<>> /\ t[1] \in {"-", "+"}
        body == IF signed THEN Tail(t) ELSE t
    IN  IF body # <<>> /\ \A i \in 1..Len(body) : body[i] \in Digits
        THEN [ok |-> TRUE,
              n |-> IF signed /\ t[1] = "-" THEN 0 - DigitsValue(body)
                    ELSE DigitsValue(body)]
        ELSE [ok |-> FALSE, n |-> 0]

-----------------------------------------------------------------------------
(* Results of the detector functions *)

RNone == [exc |-> "none", some |-> FALSE, epoch |-> 0]          \* return None
RSome(n) == [exc |-> "none", some |-> TRUE, epoch |-> n]        \* return n
RRaise(e) == [exc |-> e, some |-> FALSE, epoch |-> 0]           \* raise e
BRet(b) == [exc |-> "none", val |-> b]                          \* return b
BRaise(e) == [exc |-> e, val |-> FALSE]                         \* raise e

\* variant: the ValueError of int() is not caught
EpochOf_uncaught(n) == IF n.ok THEN RSome(n.n) ELSE RRaise("ValueError")

\* `return int(timestamp_str)`; its ValueError is caught by the caller, which
\* then returns None
EpochOf(n) == IF n.ok THEN RSome(n.n) ELSE RNone

\* json.loads(raw_json.strip()): the parsed value of a line
JsonLoads(raw_json) == raw_json.json

\* `not raw_json`: the empty string
IsEmptyStr(raw_json) == raw_json.raw = "empty"

-----------------------------------------------------------------------------
(* maker.py and fixer.py: the detector *)

\* re.compile(r"Claude.*(?:usage|use|limit).*reach", re.IGNORECASE).search
RATE_LIMIT_MSG_maker(s) ==
    \E i, j, h \in 1..Len(s) :
        /\ i < j /\ j < h
        /\ Lower(s[i]) = "claude"
        /\ Lower(s[j]) \in {"usage", "use", "limit"}
        /\ Lower(s[h]) \in {"reach", "reached"}

\* maker.py / fixer.py: "Extract the timestamp after the pipe character"
PipeEpoch_maker(s) == EpochOf(PyInt(AfterFirst(s, "|")))

ResultBranch_maker(result) ==
    IF result.k # "str" THEN RRaise("TypeError")                  \* search(result)
    ELSE IF RATE_LIMIT_MSG_maker(result.s) /\ Contains(result.s, "|")
    THEN PipeEpoch_maker(result.s)
    ELSE RNone

DataBranch_maker(data) ==
    IF data.k = "invalid" THEN RNone                  \* JSONDecodeError, caught
    ELSE IF data.k # "dict" THEN RRaise("AttributeError")         \* data.get
    ELSE IF Truthy(Get(data, "is_error", JNull)) /\ "result" \in DOMAIN data.f
    THEN ResultBranch_maker(data.f["result"])
    ELSE RNone

rate_limit_reset_epoch_maker(raw_json) ==
    IF IsEmptyStr(raw_json) THEN RNone ELSE DataBranch_maker(JsonLoads(raw_json))

\* `"result" in data` followed by data["result"], for any JSON value
ResultOf(data) ==
    CASE data.k = "dict" ->
            IF "result" \in DOMAIN data.f
            THEN [exc |-> "none", has |-> TRUE, v |-> data.f["result"]]
            ELSE [exc |-> "none", has |-> FALSE, v |-> JNull]
      [] data.k = "list" ->
            IF \E i \in 1..Len(data.items) : data.items[i] = JStr(<<"result">>)
            THEN [exc |-> "TypeError", has |-> TRUE, v |-> JNull]
            ELSE [exc |-> "none", has |-> FALSE, v |-> JNull]
      [] data.k = "str" ->
            IF Contains(data.s, "result")
            THEN [exc |-> "TypeError", has |-> TRUE, v |-> JNull]
            ELSE [exc |-> "none", has |-> FALSE, v |-> JNull]
      [] OTHER -> [exc |-> "TypeError", has |-> FALSE, v |-> JNull]

\* variant: the text is compared as written
UpperText_as_written(s) == s

UpperText(s) == [i \in 1..Len(s) |-> Upper(s[i])]

\* variant: the sentinel is looked for anywhere in the text
StartsWith_anywhere(s, t) == \E i \in 1..Len(s) : s[i] = t

\* str.startswith for a one-token prefix
StartsWith(s, t) == s # <<>> /\ s[1] = t

\* maker.py: result.strip().upper().startswith("DONE")
DoneResult(r) ==
    IF r.exc # "none" THEN BRaise(r.exc)
    ELSE IF ~r.has THEN BRet(FALSE)
    ELSE IF r.v.k # "str" THEN BRaise("AttributeError")           \* result.strip
    ELSE BRet(StartsWith(UpperText(Strip(r.v.s)), "DONE"))

DoneData(data) == IF data.k = "invalid" THEN BRet(FALSE) ELSE DoneResult(ResultOf(data))

is_done(raw_json) ==
    IF IsEmptyStr(raw_json) THEN BRet(FALSE) ELSE DoneData(JsonLoads(raw_json))

\* fixer.py: "ACTUALLY_WORKING" in result.strip().upper()
WorkingResult(r) ==
    IF r.exc # "none" THEN BRaise(r.exc)
    ELSE IF ~r.has THEN BRet(FALSE)
    ELSE IF r.v.k # "str" THEN BRaise("AttributeError")
    ELSE BRet(Contains(UpperText(Strip(r.v.s)), "ACTUALLY_WORKING"))

WorkingData(data) ==
    IF data.k = "invalid" THEN BRet(FALSE) ELSE WorkingResult(ResultOf(data))

is_actually_working(raw_json) ==
    IF IsEmptyStr(raw_json) THEN BRet(FALSE) ELSE WorkingData(JsonLoads(raw_json))

-----------------------------------------------------------------------------
(* claude_loop.py: the detector *)

\* re.compile(r"limit\s+reached", re.IGNORECASE).search
RATE_LIMIT_MSG_loop(s) ==
    \E i, j \in 1..Len(s) :
        /\ i + 1 < j
        /\ Lower(s[i]) = "limit"
        /\ \A h \in (i + 1)..(j - 1) : IsSpace(s[h])
        /\ Lower(s[j]) = "reached"

\* index of the first token after position i that is not a space
RECURSIVE SpacesEnd(_, _)
SpacesEnd(s, i) ==
    IF i + 1 <= Len(s) /\ IsSpace(s[i + 1]) THEN SpacesEnd(s, i + 1) ELSE i + 1

NoMatch == [found |-> FALSE, hour |-> 0, am_pm |-> ""]

\* (\d{1,2})(am|pm) at position p: two digits are tried before one
HourAt(s, p) ==
    IF p + 2 <= Len(s) /\ s[p] \in Digits /\ s[p + 1] \in Digits
       /\ Lower(s[p + 2]) \in {"am", "pm"}
    THEN [found |-> TRUE, hour |-> DigitsValue(<<s[p], s[p + 1]>>),
          am_pm |-> Lower(s[p + 2])]
    ELSE IF p + 1 <= Len(s) /\ s[p] \in Digits /\ Lower(s[p + 1]) \in {"am", "pm"}
    THEN [found |-> TRUE, hour |-> DigitsValue(<<s[p]>>), am_pm |-> Lower(s[p + 1])]
    ELSE NoMatch

\* r"resets\s+" matched at position i, the hour expected at position p
ResetAt(s, i, p) ==
    IF Lower(s[i]) = "resets" /\ p > i + 1 THEN HourAt(s, p) ELSE NoMatch

\* r"resets\s+(\d{1,2})(am|pm)" matched at position i
ResetMatchAt(s, i) == ResetAt(s, i, SpacesEnd(s, i))

\* the leftmost of the positions in `found`
Leftmost(found) == CHOOSE i \in found : \A h \in found : i <= h

MatchAmong(s, found) == IF found = {} THEN NoMatch ELSE ResetMatchAt(s, Leftmost(found))

\* RESET_TIME_PATTERN.search: the leftmost match
RESET_TIME_PATTERN(s) == MatchAmong(s, {i \in 1..Len(s) : ResetMatchAt(s, i).found})

\* variant: pm always adds 12
To24Hour_pm_always(hour, am_pm) ==
    IF am_pm = "pm" THEN hour + 12
    ELSE IF am_pm = "am" /\ hour = 12 THEN 0
    ELSE hour

\* "Convert to 24-hour format"
To24Hour(hour, am_pm) ==
    IF am_pm = "pm" /\ hour # 12 THEN hour + 12
    ELSE IF am_pm = "am" /\ hour = 12 THEN 0
    ELSE hour

\* "Calculate next occurrence of this time": now.replace raises ValueError for
\* an hour outside 0..23 (caught by the caller); timedelta is not imported, so
\* the branch for a time that already passed raises NameError
ResetToday(hour, now) == (now - (now % 86400)) + hour * 3600

NextAt(hour, now) ==
    IF hour > 23 THEN RNone
    ELSE IF ResetToday(hour, now) <= now THEN RRaise("NameError")
    ELSE RSome(ResetToday(hour, now))

NextOccurrence(reset_match, now) ==
    NextAt(To24Hour(reset_match.hour, reset_match.am_pm), now)

\* variant: the pipe fallback is missing
PipeEpoch_missing(s) == RNone

\* "Fallback: look for old format with pipe and epoch timestamp"
PipeEpoch(s) == IF Contains(s, "|") THEN EpochOf(PyInt(AfterFirst(s, "|"))) ELSE RNone

\* the two forms of the reset time in an error result
ResetOrPipe(reset_match, s, now) ==
    IF reset_match.found THEN NextOccurrence(reset_match, now) ELSE PipeEpoch(s)

\* one text item of message.content; `rest` is the outcome of the later items
TextItem(text, reset_match, rest, now) ==
    IF text.k # "str" THEN RRaise("TypeError")
    ELSE IF RATE_LIMIT_MSG_loop(text.s) /\ reset_match.found
    THEN NextOccurrence(reset_match, now)
    ELSE rest

TextOf(item) == Get(item, "text", JStr(<<>>))

SearchReset(text) == IF text.k = "str" THEN RESET_TIME_PATTERN(text.s) ELSE NoMatch

\* the loop over message.content, from item i on
RECURSIVE ScanContent(_, _, _)
ScanContent(items, i, now) ==
    IF i > Len(items) THEN RNone
    ELSE IF items[i].k # "dict" THEN RRaise("AttributeError")          \* item.get
    ELSE IF Get(items[i], "type", JNull) # JStr(<<"text">>)
    THEN ScanContent(items, i + 1, now)
    ELSE TextItem(TextOf(items[i]), SearchReset(TextOf(items[i])),
                  ScanContent(items, i + 1, now), now)

\* `for item in content` for any JSON value of content
ContentBranch(content, now) ==
    IF content.k \in {"null", "int", "bool"} THEN RRaise("TypeError")
    ELSE IF content.k = "str"
    THEN (IF content.s = <<>> THEN RNone ELSE RRaise("AttributeError"))
    ELSE IF content.k = "dict"
    THEN (IF DOMAIN content.f = {} THEN RNone ELSE RRaise("AttributeError"))
    ELSE ScanContent(content.items, 1, now)

\* data.get("message", {}).get("content", [])
MessageBranch(message, now) ==
    IF message.k # "dict" THEN RRaise("AttributeError")
    ELSE ContentBranch(Get(message, "content", JList(<<>>)), now)

\* the branch for an error result
ResultBranch_loop(result, now) ==
    IF result.k # "str" THEN RRaise("TypeError")
    ELSE IF ~RATE_LIMIT_MSG_loop(result.s) THEN RNone
    ELSE ResetOrPipe(RESET_TIME_PATTERN(result.s), result.s, now)

DataBranch_loop(data, now) ==
    IF data.k = "invalid" THEN RNone
    ELSE IF data.k # "dict" THEN RRaise("AttributeError")
    ELSE IF Truthy(Get(data, "is_error", JNull)) /\ "result" \in DOMAIN data.f
    THEN ResultBranch_loop(data.f["result"], now)
    ELSE IF Get(data, "type", JNull) = JStr(<<"assistant">>)
    THEN MessageBranch(Get(data, "message", JDict(<<>>)), now)
    ELSE RNone

rate_limit_reset_epoch_loop(raw_json, now) ==
    IF IsEmptyStr(raw_json) THEN RNone ELSE DataBranch_loop(JsonLoads(raw_json), now)

-----------------------------------------------------------------------------
(* Lines of child output.  raw tells an empty line ("empty"), a line of      *)
(* spaces ("blank") and any other line ("text") apart; json is what          *)
(* json.loads makes of the stripped line.                                    *)

T_Done == <<" ", "done", ":", " ", "ACTUALLY_WORKING">>
T_Limit == <<"Claude", " ", "usage", " ", "limit", " ", "reached", "|", "9", "0", "0", "0">>
T_DoneLimit ==
    <<"DONE", " ", "ACTUALLY_WORKING", " ", "Claude", " ", "limit", " ", "reached",
      "|", "9", "0", "0", "0">>
T_Resets ==
    <<"Claude", " ", "usage", " ", "limit", " ", "reached", ",", " ", "resets", " ",
      "3", "am">>

Usage1 ==
    JDict([input_tokens |-> JInt(1), output_tokens |-> JInt(2),
           cache_read_input_tokens |-> JInt(3),
           cache_creation |-> JDict([ephemeral_5m_input_tokens |-> JInt(4)])])

LEmpty == [raw |-> "empty", json |-> JInvalid]
LBlank == [raw |-> "blank", json |-> JInvalid]
LGarbage == [raw |-> "text", json |-> JInvalid]
LArray == [raw |-> "text", json |-> JList(<<JInt(1)>>)]
LAssistant ==
    [raw |-> "text",
     json |-> JDict([type |-> JStr(<<"assistant">>),
                     message |-> JDict([content |->
                         JList(<<JDict([type |-> JStr(<<"text">>),
                                        text |-> JStr(<<"x">>)])>>)])])]
LDone ==
    [raw |-> "text",
     json |-> JDict([type |-> JStr(<<"result">>), result |-> JStr(T_Done),
                     usage |-> Usage1])]
LLimit ==
    [raw |-> "text",
     json |-> JDict([type |-> JStr(<<"result">>), is_error |-> JBool(TRUE),
                     result |-> JStr(T_Limit)])]
LDoneLimit ==
    [raw |-> "text",
     json |-> JDict([type |-> JStr(<<"result">>), is_error |-> JBool(TRUE),
                     result |-> JStr(T_DoneLimit), usage |-> Usage1])]
LResets ==
    [raw |-> "text",
     json |-> JDict([type |-> JStr(<<"result">>), is_error |-> JBool(TRUE),
                     result |-> JStr(T_Resets)])]
LResultInt == [raw |-> "text", json |-> JDict([result |-> JInt(5)])]
\* a rate-limit notice whose text after the pipe is no integer
LBadEpoch ==
    [raw |-> "text",
     json |-> JDict([type |-> JStr(<<"result">>), is_error |-> JBool(TRUE),
                     result |-> JStr(<<"Claude", " ", "usage", " ", "limit", " ",
                                       "reached", "|", "abc">>)])]

\* what a child may write
LoopLines ==
    {LEmpty, LGarbage, LArray, LAssistant, LDone, LLimit, LDoneLimit, LResets,
     LResultInt, LBadEpoch}

\* what the log file may hold when the run starts: nothing (or no file), or
\* the last line an earlier run left in it
PriorLogs == {<<>>, <<LAssistant>>, <<LDone>>, <<LLimit>>}

-----------------------------------------------------------------------------
(* The log file *)

\* last_json_line scans the file backwards: a newline met while nothing has
\* been collected is skipped, so every empty line at the end is passed over;
\* a missing file or a file without such a line gives the empty string
RECURSIVE LastFrom(_, _)
LastFrom(file, pos) ==
    IF pos = 0 THEN 0
    ELSE IF file[pos].raw = "empty" THEN LastFrom(file, pos - 1)
    ELSE pos

\* index in the file of the line last_json_line returns, 0 when it returns ""
LastIndex(file) == LastFrom(file, Len(file))

LineAt(file, i) == IF i = 0 THEN LEmpty ELSE file[i]

last_json_line(file) == LineAt(file, LastIndex(file))

\* line.strip(), as stored in current_iteration_lines
StripLine(line) == IF line.raw = "blank" THEN LEmpty ELSE line

-----------------------------------------------------------------------------
(* StatsTracker *)

NewStats ==
    [total_input_tokens |-> 0, total_output_tokens |-> 0,
     total_cache_read_tokens |-> 0, total_cache_write_tokens |-> 0,
     iterations |-> 0]

\* StatsTracker(): the totals and self.start_time = time.time()
StatsTracker(now) ==
    [total_input_tokens |-> NewStats.total_input_tokens,
     total_output_tokens |-> NewStats.total_output_tokens,
     total_cache_read_tokens |-> NewStats.total_cache_read_tokens,
     total_cache_write_tokens |-> NewStats.total_cache_write_tokens,
     iterations |-> NewStats.iterations,
     start_time |-> now]

\* variant: the iteration is not counted
NextIteration_uncounted(st) == st

\* `stats.iterations += 1`
NextIteration(st) == [st EXCEPT !.iterations = @ + 1]

\* `total += v`: an int (or a bool) is added, anything else is a TypeError
IsNum(v) == v.k \in {"int", "bool"}
NumOf(v) == IF v.k = "int" THEN v.n ELSE IF v.k = "bool" /\ v.b THEN 1 ELSE 0

\* variant: only the 5-minute cache tokens are counted
AddCacheWrite_5m_only(st, d, e) ==
    IF ~IsNum(d) THEN [exc |-> "TypeError", st |-> st]
    ELSE [exc |-> "none",
          st |-> [st EXCEPT !.total_cache_write_tokens = @ + NumOf(d)]]

\* the two `+=` on total_cache_write_tokens
AddCacheWrite(st, d, e) ==
    IF ~IsNum(d) THEN [exc |-> "TypeError", st |-> st]
    ELSE IF ~IsNum(e)
    THEN [exc |-> "TypeError",
          st |-> [st EXCEPT !.total_cache_write_tokens = @ + NumOf(d)]]
    ELSE [exc |-> "none",
          st |-> [st EXCEPT !.total_cache_write_tokens = @ + NumOf(d) + NumOf(e)]]

CacheCreation(st, cache_creation) ==
    IF cache_creation.k # "dict" THEN [exc |-> "AttributeError", st |-> st]
    ELSE AddCacheWrite(st, Get(cache_creation, "ephemeral_5m_input_tokens", JInt(0)),
                       Get(cache_creation, "ephemeral_1h_input_tokens", JInt(0)))

\* the three `+=` on the input, output and cache-read totals, in the order of
\* the code: a value that is no number raises after the earlier totals changed
AddTokens(st, a, b, c, cache_creation) ==
    IF ~IsNum(a) THEN [exc |-> "TypeError", st |-> st]
    ELSE IF ~IsNum(b)
    THEN [exc |-> "TypeError",
          st |-> [st EXCEPT !.total_input_tokens = @ + NumOf(a)]]
    ELSE IF ~IsNum(c)
    THEN [exc |-> "TypeError",
          st |-> [st EXCEPT !.total_input_tokens = @ + NumOf(a),
                            !.total_output_tokens = @ + NumOf(b)]]
    ELSE CacheCreation([st EXCEPT !.total_input_tokens = @ + NumOf(a),
                                  !.total_output_tokens = @ + NumOf(b),
                                  !.total_cache_read_tokens = @ + NumOf(c)],
                       cache_creation)

AddUsage(st, usage) ==
    AddTokens(st, Get(usage, "input_tokens", JInt(0)),
              Get(usage, "output_tokens", JInt(0)),
              Get(usage, "cache_read_input_tokens", JInt(0)),
              Get(usage, "cache_creation", JDict(<<>>)))

UsageBranch(st, usage) ==
    IF usage.k # "dict" THEN [exc |-> "AttributeError", st |-> st]   \* usage.get
    ELSE AddUsage(st, usage)

UsageData(st, data) ==
    IF data.k = "invalid" THEN [exc |-> "none", st |-> st]           \* caught
    ELSE IF data.k # "dict" THEN [exc |-> "AttributeError", st |-> st] \* data.get
    ELSE UsageBranch(st, Get(data, "usage", JDict(<<>>)))

parse_usage_from_json(st, raw_json) ==
    IF IsEmptyStr(raw_json) THEN [exc |-> "none", st |-> st]
    ELSE UsageData(st, JsonLoads(raw_json))

\* `for line in current_iteration_lines: stats.parse_usage_from_json(line)`
RECURSIVE ParseAll(_, _)
ParseRest(r, lines) == IF r.exc # "none" THEN r ELSE ParseAll(r.st, lines)

ParseAll(st, lines) ==
    IF lines = <<>> THEN [exc |-> "none", st |-> st]
    ELSE ParseRest(parse_usage_from_json(st, Head(lines)), Tail(lines))

\* Prices in hundred-millionths of a dollar per token ($3.00, $15.00, $0.30
\* and $3.75 per million tokens), so that costs are integers
INPUT_TOKEN_COST == 300
OUTPUT_TOKEN_COST == 1500
CACHE_READ_TOKEN_COST == 30
CACHE_WRITE_TOKEN_COST == 375

\* calculate_cost, in hundred-millionths of a dollar
calculate_cost(st) ==
    st.total_input_tokens * INPUT_TOKEN_COST
        + st.total_output_tokens * OUTPUT_TOKEN_COST
        + st.total_cache_read_tokens * CACHE_READ_TOKEN_COST
        + st.total_cache_write_tokens * CACHE_WRITE_TOKEN_COST

\* max(elapsed_hours, 0.01), in seconds: 0.01 hours are 36 seconds
FlooredSeconds(elapsed_seconds) == Max(elapsed_seconds, 36)

\* x / max(elapsed_hours, 0.01) as the exact fraction num / den; the rounding
\* of the floating-point division is left out
PerHour(x, elapsed_seconds) ==
    [num |-> x * 3600, den |-> FlooredSeconds(elapsed_seconds)]

\* get_stats: the snapshot
get_stats(st, now) ==
    [iterations |-> st.iterations,
     elapsed_seconds |-> now - st.start_time,
     total_cost |-> calculate_cost(st),
     tokens |-> [input |-> st.total_input_tokens,
                 output |-> st.total_output_tokens,
                 cache_read |-> st.total_cache_read_tokens,
                 cache_write |-> st.total_cache_write_tokens,
                 total |-> st.total_input_tokens + st.total_output_tokens
                           + st.total_cache_read_tokens
                           + st.total_cache_write_tokens],
     rate |-> [tokens_per_hour |->
                   PerHour(st.total_input_tokens + st.total_output_tokens,
                           now - st.start_time),
               cost_per_hour |-> PerHour(calculate_cost(st), now - st.start_time)]]

\* no snapshot has been taken
NoStats == [iterations |-> -1]

\* extract_summary_with_jq has not been called
NoSummary == [exc |-> "uncalled", some |-> FALSE, s |-> <<>>]

-----------------------------------------------------------------------------
(* claude_loop.py: the summary shown for a line (extract_summary_with_jq).    *)
(* The texts of assistant messages are sequences of single characters here,   *)
(* so that len() and slices count characters; the emoji that open a summary   *)
(* are written <robot>, <wrench> and <gear>.  jq is taken to hand strings     *)
(* back as it read them.                                                      *)

SNone == [exc |-> "none", some |-> FALSE, s |-> <<>>]          \* return None
SText(s) == [exc |-> "none", some |-> TRUE, s |-> s]           \* return s
SRaise(e) == [exc |-> e, some |-> FALSE, s |-> <<>>]           \* raise e

\* s[:n]
Prefix(s, n) == SubSeq(s, 1, IF Len(s) < n THEN Len(s) ELSE n)

\* s.rfind(t) for a one-character t: the offset of its last occurrence, -1
\* when there is none
RFind(s, t) ==
    IF \E i \in 1..Len(s) : s[i] = t
    THEN (CHOOSE i \in 1..Len(s) : s[i] = t /\ \A j \in (i + 1)..Len(s) : s[j] # t) - 1
    ELSE -1

Ellipsis == <<".", ".", ".">>

\* `if last_space > 100: text = truncated[:last_space] + "..."`, else
\* `text = truncated + "..."`
CutAt(truncated, last_space) ==
    IF last_space > 100 THEN Prefix(truncated, last_space) \o Ellipsis
    ELSE truncated \o Ellipsis

\* variant: texts of up to 121 characters are shown whole
Truncate_over_121(text) ==
    IF Len(text) > 121 THEN CutAt(Prefix(text, 120), RFind(Prefix(text, 120), " "))
    ELSE text

\* "Smart truncation - try to end at word boundary"
Truncate(text) ==
    IF Len(text) > 120 THEN CutAt(Prefix(text, 120), RFind(Prefix(text, 120), " "))
    ELSE text

DigitChar(d) ==
    CASE d = 0 -> "0" [] d = 1 -> "1" [] d = 2 -> "2" [] d = 3 -> "3" [] d = 4 -> "4"
      [] d = 5 -> "5" [] d = 6 -> "6" [] d = 7 -> "7" [] d = 8 -> "8" [] d = 9 -> "9"

\* str(n) for n >= 0
RECURSIVE StrOfNat(_)
StrOfNat(n) ==
    IF n < 10 THEN <<DigitChar(n)>> ELSE StrOfNat(n \div 10) \o <<DigitChar(n % 10)>>

\* f"{v}": a string as it is, None as "None"; the repr of any other value is
\* one token
Format(v) ==
    CASE v.k = "str" -> v.s
      [] v.k = "null" -> <<"None">>
      [] v.k = "int" /\ v.n >= 0 -> StrOfNat(v.n)
      [] OTHER -> <<"<repr>">>

\* f"<robot> {text}"
AssistantText(text) == <<"<robot>", " ">> \o text

\* f"<wrench> {tool_name}"
ToolUse(tool_name) == <<"<wrench>", " ">> \o tool_name

\* "<robot> Assistant message"
Placeholder == <<"<robot>", " ", "Assistant", " ", "message">>

\* f"<gear>  System {subtype} | {tools_count} tools"
System(subtype, tools_count) ==
    <<"<gear>", " ", " ", "System", " ">> \o subtype \o <<" ", "|", " ">>
        \o tools_count \o <<" ", "tools">>

\* the text branch of both paths: len(text) raises TypeError for None, a
\* number or a boolean
TextSummary(text) ==
    IF text.k = "str" THEN SText(AssistantText(Truncate(text.s)))
    ELSE IF text.k \in {"list", "dict"} THEN SText(AssistantText(Format(text)))
    ELSE SRaise("TypeError")

\* a jq filter that ended in an error
JError == [k |-> "error"]

\* jq `.key`: defined on objects and on null
JqKey(v, key) ==
    CASE v.k = "dict" -> Get(v, key, JNull)
      [] v.k = "null" -> JNull
      [] OTHER -> JError

\* jq `.[0]`: defined on arrays and on null
JqFirst(v) ==
    CASE v.k = "list" -> (IF v.items = <<>> THEN JNull ELSE v.items[1])
      [] v.k = "null" -> JNull
      [] OTHER -> JError

\* jq `f // null`: null when f is null or false or ends in an error
JqAlt(v) == IF v.k \in {"error", "null"} \/ v = JBool(FALSE) THEN JNull ELSE v

\* jq `length`
JqLength(v) ==
    CASE v.k = "null" -> JInt(0)
      [] v.k = "list" -> JInt(Len(v.items))
      [] v.k = "str" -> JInt(Len(v.s))
      [] v.k = "dict" -> JInt(Cardinality(DOMAIN v.f))
      [] v.k = "int" -> JInt(IF v.n < 0 THEN 0 - v.n ELSE v.n)
      [] OTHER -> JError

\* jq `length > 1`
JqLonger(n) == IF n.k = "error" THEN JError ELSE JBool(n.n > 1)

\* the object the second jq call builds, or the error that ends it
JqObject(type, first, subtype, tools_count, has_both) ==
    IF \E x \in {type, subtype, tools_count, has_both} : x.k = "error" THEN JError
    ELSE JDict([type |-> type,
                message_type |-> JqAlt(JqKey(first, "type")),
                tool_name |-> JqAlt(JqKey(first, "name")),
                text_preview |-> JqAlt(JqKey(first, "text")),
                subtype |-> subtype, tools_count |-> tools_count,
                has_both |-> has_both])

JqFields(v) ==
    JqObject(JqKey(v, "type"), JqFirst(JqKey(JqKey(v, "message"), "content")),
             JqKey(v, "subtype"), JqLength(JqKey(v, "tools")),
             JqLonger(JqLength(JqKey(JqKey(v, "message"), "content"))))

\* `fields.get('tools_count', 0) or 0`
CountOrZero(v) == IF Truthy(v) THEN v ELSE JInt(0)

\* variant: a tool use is shown whatever follows it
AssistantOfFields_ignores_has_both(message_type, tool_name, text_preview, has_both) ==
    IF message_type = JStr(<<"text">>) THEN TextSummary(text_preview)
    ELSE IF message_type = JStr(<<"tool_use">>)
    THEN SText(ToolUse(Format(tool_name)))
    ELSE SText(Placeholder)

\* the assistant branch on the fields of jq; every key is present in fields,
\* so the defaults of fields.get are never used
AssistantOfFields(message_type, tool_name, text_preview, has_both) ==
    IF message_type = JStr(<<"text">>) THEN TextSummary(text_preview)
    ELSE IF message_type = JStr(<<"tool_use">>)
    THEN (IF ~Truthy(has_both) THEN SText(ToolUse(Format(tool_name))) ELSE SNone)
    ELSE SText(Placeholder)

SummaryOfFields(fields) ==
    IF fields.type = JStr(<<"assistant">>)
    THEN AssistantOfFields(fields.message_type, fields.tool_name,
                           fields.text_preview, fields.has_both)
    ELSE IF fields.type = JStr(<<"user">>) THEN SNone
    ELSE IF fields.type = JStr(<<"system">>)
    THEN SText(System(Format(fields.subtype), Format(CountOrZero(fields.tools_count))))
    ELSE SNone

\* what the jq helper may do: run as written, be missing, run out of time,
\* end with a non-zero status, or print what json.loads cannot read
JqBehaviours == {"ok", "absent", "timeout", "nonzero", "garbled"}

\* the two jq calls when both end in time with status 0 or fail on the input
JqRun(data) ==
    IF data.k = "invalid" \/ JqFields(data).k = "error" THEN SNone
    ELSE SummaryOfFields(JqFields(data).f)

\* the `try` block
JqPath(json_line, j) ==
    CASE j = "absent" -> SRaise("FileNotFoundError")
      [] j = "timeout" -> SRaise("TimeoutExpired")
      [] j = "nonzero" -> SNone
      [] j = "garbled" -> SRaise("JSONDecodeError")
      [] OTHER -> JqRun(JsonLoads(json_line))

\* the first content item in the fallback: `first_content.get` needs an object
FirstContent(first_content, n) ==
    IF first_content.k # "dict" THEN SRaise("AttributeError")
    ELSE IF Get(first_content, "type", JNull) = JStr(<<"text">>)
    THEN TextSummary(Get(first_content, "text", JStr(<<>>)))
    ELSE IF Get(first_content, "type", JNull) = JStr(<<"tool_use">>)
    THEN (IF n = 1
          THEN SText(ToolUse(Format(Get(first_content, "name", JStr(<<"unknown">>)))))
          ELSE SNone)
    ELSE SNone

\* `if content and len(content) > 0: first_content = content[0]`
ContentOf(content) ==
    IF ~Truthy(content) THEN SNone
    ELSE IF content.k \in {"int", "bool"} THEN SRaise("TypeError")
    ELSE IF content.k = "str" THEN SRaise("AttributeError")
    ELSE IF content.k = "dict" THEN SRaise("KeyError")
    ELSE FirstContent(content.items[1], Len(content.items))

\* data.get('message', {}).get('content', [])
MessageOf(message) ==
    IF message.k # "dict" THEN SRaise("AttributeError")
    ELSE ContentOf(Get(message, "content", JList(<<>>)))

\* len(data.get('tools', []))
ToolsCount(tools) ==
    IF tools.k \in {"null", "int", "bool"} THEN SRaise("TypeError")
    ELSE SText(Format(JqLength(tools)))

SystemOf(subtype, count) ==
    IF count.exc # "none" THEN count ELSE SText(System(Format(subtype), count.s))

\* the fallback on the parsed line
FallbackData(data) ==
    IF data.k = "invalid" THEN SRaise("JSONDecodeError")
    ELSE IF data.k # "dict" THEN SRaise("AttributeError")
    ELSE IF Get(data, "type", JNull) = JStr(<<"assistant">>)
    THEN MessageOf(Get(data, "message", JDict(<<>>)))
    ELSE IF Get(data, "type", JNull) = JStr(<<"system">>)
    THEN SystemOf(Get(data, "subtype", JStr(<<"unknown">>)),
                  ToolsCount(Get(data, "tools", JList(<<>>))))
    ELSE SNone

\* variant: the fallback catches nothing
Caught_nothing(r) == r

\* the bare `except: return None` of the fallback
Caught(r) == IF r.exc # "none" THEN SNone ELSE r

\* "Fallback to Python parsing if jq fails"
FallbackPath(json_line) == Caught(FallbackData(JsonLoads(json_line)))

\* every exception of the `try` block starts the fallback
AfterTry(r, json_line) == IF r.exc # "none" THEN FallbackPath(json_line) ELSE r

extract_summary_with_jq(json_line, j) ==
    IF json_line.raw \in {"empty", "blank"} THEN SNone
    ELSE AfterTry(JqPath(json_line, j), json_line)

-----------------------------------------------------------------------------
(* main(): the pieces of the loop body *)

COOLDOWN == 60      \* time.sleep(60)

Scripts == {"maker", "fixer", "claude_loop"}

\* variant: the log is opened for writing, which empties it
OpenLog_truncating(file) == <<>>

\* OUTPUT_PATH.open("a", buffering=1): what the file holds is kept
OpenLog(file) == file

\* log_fp.write(line): the line goes to the end of the file; the buffer is
\* flushed at every newline and when the file is closed
WriteLine(file, line) == Append(file, line)

\* variant: main() goes on without waiting for the child
Reaped_not_waited(n) == n

\* process.wait() returns: the child has ended and has been collected
Reaped(n) == n - 1

\* variant: the interrupt is caught inside the loop, which goes on
KeyboardInterrupt_in_loop(p) == "top"

\* `except KeyboardInterrupt` around main(): the message is printed and the
\* program ends
KeyboardInterrupt(p) == "interrupted"

\* the exit status of the program once main() has ended at position p: an
\* exception that nothing catches ends it with status 1
ExitStatus(p) == IF p = "crashed" THEN 1 ELSE 0

\* variant: the resume flag is never placed in the argument list
claude_cmd_no_resume(continue_flag) ==
    <<"/usr/local/bin/claude", "--dangerously-skip-permissions", "--verbose",
      "--output-format", "stream-json", "-p", "PROMPT">>

\* the argument list of the child
claude_cmd(continue_flag) ==
    <<"/usr/local/bin/claude">>
        \o (IF continue_flag THEN <<"--continue">> ELSE <<>>)
        \o <<"--dangerously-skip-permissions", "--verbose", "--output-format",
             "stream-json", "-p", "PROMPT">>

\* variant: the difference is not clamped at zero
SleepSeconds_unclamped(reset, current) == reset - current

\* sleep_seconds = max(0, reset_epoch - current_epoch)
SleepSeconds(reset, current) == Max(0, reset - current)

\* the rate-limit predicate of each script
Detect(scr, raw_json, now) ==
    IF scr = "claude_loop" THEN rate_limit_reset_epoch_loop(raw_json, now)
    ELSE rate_limit_reset_epoch_maker(raw_json)

\* the completion predicate of each script
Complete(scr, raw_json) ==
    IF scr = "maker" THEN is_done(raw_json) ELSE is_actually_working(raw_json)

\* variant: the single-iteration flag is ignored
AfterBranch_ignores_single(scr, single) == "cooldown"

\* variant: the loop is re-entered right after the rate-limit sleep
AfterSleep_no_cooldown(scr, single) ==
    IF scr # "claude_loop" /\ single THEN "stopped_single" ELSE "top"

\* `if single_iteration: ... break`, then the cooldown; claude_loop.py has no
\* single-iteration mode
AfterBranch(scr, single) ==
    IF scr # "claude_loop" /\ single THEN "stopped_single" ELSE "cooldown"

\* after time.sleep(sleep_seconds): the single-iteration check, then the
\* cooldown
AfterSleep(scr, single) == AfterBranch(scr, single)

Unevaluated == [exc |-> "unevaluated", some |-> FALSE, epoch |-> 0]

\* the state of main() at its next blocking call or at its end
Outcome(p, cn, st, line, d, r, cur, secs, exc) ==
    [pc |-> p, continue_next |-> cn, stats |-> st, last_line |-> line, done |-> d,
     reset_epoch |-> r, current_epoch |-> cur, sleep_seconds |-> secs,
     failure |-> exc]

\* from `if reset_epoch is not None` to the call of time.sleep, or to the
\* single-iteration check when there is no reset epoch
AfterDetect(r, d, scr, single, st, line, now) ==
    IF r.exc # "none" THEN Outcome("crashed", FALSE, st, line, d, r, 0, 0, r.exc)
    ELSE IF r.some
    THEN Outcome("sleeping", TRUE, st, line, d, r, now,
                 SleepSeconds(r.epoch, now), "none")
    ELSE Outcome(AfterBranch(scr, single), FALSE, st, line, d, r, 0, 0, "none")

\* `reset_epoch = rate_limit_reset_epoch(last_line)` and what follows
RateLimitBranch(d, scr, single, st, line, now) ==
    AfterDetect(Detect(scr, line, now), d, scr, single, st, line, now)

\* variant: the rate-limit predicate is consulted before the completion
\* predicate
AfterComplete_rate_limit_first(d, scr, single, st, line, now) ==
    IF Detect(scr, line, now).some
    THEN RateLimitBranch("false", scr, single, st, line, now)
    ELSE IF d.exc # "none"
    THEN Outcome("crashed", FALSE, st, line, "raised", Unevaluated, 0, 0, d.exc)
    ELSE IF d.val
    THEN Outcome("stopped_success", FALSE, st, line, "true", Unevaluated, 0, 0,
                 "none")
    ELSE RateLimitBranch("false", scr, single, st, line, now)

\* variant: a completed line does not leave the loop
AfterComplete_no_break(d, scr, single, st, line, now) ==
    IF d.exc # "none"
    THEN Outcome("crashed", FALSE, st, line, "raised", Unevaluated, 0, 0, d.exc)
    ELSE RateLimitBranch(IF d.val THEN "true" ELSE "false", scr, single, st,
                         line, now)

\* maker.py and fixer.py: `if is_done(last_line): ... break`, else the
\* rate-limit branch
AfterComplete(d, scr, single, st, line, now) ==
    IF d.exc # "none"
    THEN Outcome("crashed", FALSE, st, line, "raised", Unevaluated, 0, 0, d.exc)
    ELSE IF d.val
    THEN Outcome("stopped_success", FALSE, st, line, "true", Unevaluated, 0, 0,
                 "none")
    ELSE RateLimitBranch("false", scr, single, st, line, now)

CompletionBranch(scr, single, st, line, now) ==
    AfterComplete(Complete(scr, line), scr, single, st, line, now)

\* maker.py and fixer.py: the usage of the iteration's lines is added, then
\* continue_next is reset and the last line of the log is consulted
AfterUsage(u, scr, single, cn, file, now) ==
    IF u.exc # "none"
    THEN Outcome("crashed", cn, u.st, LEmpty, "unevaluated", Unevaluated, 0, 0,
                 u.exc)
    ELSE CompletionBranch(scr, single, u.st, last_json_line(file), now)

\* variant: the completion check comes before the usage of the iteration's
\* lines is added
Boundary_check_before_usage(scr, single, cn, st, lines, file, now) ==
    IF scr = "claude_loop"
    THEN RateLimitBranch("unevaluated", scr, single, st, last_json_line(file), now)
    ELSE IF Complete(scr, last_json_line(file)).exc = "none"
            /\ Complete(scr, last_json_line(file)).val
    THEN CompletionBranch(scr, single, st, last_json_line(file), now)
    ELSE AfterUsage(ParseAll(st, lines), scr, single, cn, file, now)

\* everything main() does between process.wait() and the next blocking call
Boundary(scr, single, cn, st, lines, file, now) ==
    IF scr = "claude_loop"
    THEN RateLimitBranch("unevaluated", scr, single, st, last_json_line(file), now)
    ELSE AfterUsage(ParseAll(st, lines), scr, single, cn, file, now)

-----------------------------------------------------------------------------
(* The state machine *)

Init ==
    /\ script \in Scripts
    /\ single_iteration \in (IF script = "claude_loop" THEN {FALSE} ELSE BOOLEAN)
    /\ pc = "top"
    /\ continue_next = FALSE
    /\ log \in PriorLogs
    /\ clock \in StartClocks
    /\ stats = StatsTracker(clock)
    /\ current_iteration_lines = <<>>
    /\ spawned = 0
    /\ cmd = <<>>
    /\ iter_start = 0
    /\ last_line = LEmpty
    /\ done = "unevaluated"
    /\ reset_epoch = Unevaluated
    /\ prev_reset = Unevaluated
    /\ current_epoch = 0
    /\ sleep_seconds = 0
    /\ exit_clock = 0
    /\ slept = -1
    /\ cooled = 0
    /\ failure = "none"
    /\ current_stats = NoStats
    /\ children = 0
    /\ interrupted = FALSE
    /\ jq = "unused"
    /\ summary = NoSummary
    /\ final_stats = NoStats

\* top of the loop: count the iteration, build the command, start the child
Spawn ==
    /\ pc = "top"
    /\ spawned < MaxSpawns
    /\ stats' = IF script = "claude_loop" THEN stats ELSE NextIteration(stats)
    /\ current_stats' = IF script = "claude_loop" THEN current_stats
                        ELSE get_stats(stats', clock)
    /\ cmd' = claude_cmd(continue_next)
    /\ spawned' = spawned + 1
    /\ children' = children + 1
    /\ log' = OpenLog(log)
    /\ iter_start' = Len(log')
    /\ current_iteration_lines' = <<>>
    /\ prev_reset' = reset_epoch
    /\ pc' = "reading"
    /\ UNCHANGED <<final_stats, interrupted, jq, summary, script, single_iteration, continue_next, clock, last_line,
                   done, reset_epoch, current_epoch, sleep_seconds, exit_clock,
                   slept, cooled, failure>>

\* one line of the child's output is read and appended to the log;
\* claude_loop.py also prints the summary of the line, which changes nothing
\* main() looks at later (extract_summary_with_jq returns in every case)
ReadLine ==
    /\ pc = "reading"
    /\ Len(log) < MaxLog
    /\ \E line \in LoopLines :
          /\ log' = WriteLine(log, line)
          /\ current_iteration_lines' =
                IF script = "claude_loop" THEN current_iteration_lines
                ELSE Append(current_iteration_lines, StripLine(line))
    /\ UNCHANGED <<final_stats, children, interrupted, jq, summary, current_stats, script, single_iteration, pc, continue_next, clock, stats,
                   spawned, cmd, iter_start, last_line, done, reset_epoch,
                   prev_reset, current_epoch, sleep_seconds, exit_clock, slept,
                   cooled, failure>>

\* the variables of main() take the values of outcome b
Becomes(b) ==
    /\ pc' = b.pc
    /\ continue_next' = b.continue_next
    /\ stats' = b.stats
    /\ last_line' = b.last_line
    /\ done' = b.done
    /\ reset_epoch' = b.reset_epoch
    /\ current_epoch' = b.current_epoch
    /\ sleep_seconds' = b.sleep_seconds
    /\ failure' = b.failure

\* end of the child's output: the `for` loop ends and the log file is closed
EndOfOutput ==
    /\ pc = "reading"
    /\ pc' = "waiting"
    /\ UNCHANGED <<final_stats, children, interrupted, jq, summary, current_stats, script,
                   single_iteration, continue_next, log, clock, stats,
                   current_iteration_lines, spawned, cmd, iter_start, last_line,
                   done, reset_epoch, prev_reset, current_epoch, sleep_seconds,
                   exit_clock, slept, cooled, failure>>

\* process.wait() returns, then the loop body up to the next blocking call
ChildExit ==
    /\ pc = "waiting"
    /\ children' = Reaped(children)
    /\ clock' = clock + RunSeconds
    /\ exit_clock' = clock + RunSeconds
    /\ Becomes(Boundary(script, single_iteration, continue_next, stats,
                        current_iteration_lines, log, clock + RunSeconds))
    /\ slept' = -1
    /\ cooled' = 0
    /\ final_stats' = IF pc' \in {"stopped_success", "stopped_single"}
                      THEN get_stats(stats', clock')
                      ELSE final_stats
    /\ UNCHANGED <<interrupted, jq, summary, current_stats, script, single_iteration, log, current_iteration_lines, spawned,
                   cmd, iter_start, prev_reset>>

\* time.sleep(sleep_seconds) returns, then the single-iteration check
SleepDone ==
    /\ pc = "sleeping"
    /\ clock' = clock + sleep_seconds
    /\ slept' = sleep_seconds
    /\ pc' = AfterSleep(script, single_iteration)
    /\ final_stats' = IF pc' = "stopped_single" THEN get_stats(stats, clock')
                      ELSE final_stats
    /\ UNCHANGED <<children, interrupted, jq, summary, current_stats, script, single_iteration, continue_next, log, stats,
                   current_iteration_lines, spawned, cmd, iter_start, last_line,
                   done, reset_epoch, prev_reset, current_epoch, sleep_seconds,
                   exit_clock, cooled, failure>>

\* time.sleep(60) returns
CooldownDone ==
    /\ pc = "cooldown"
    /\ clock' = clock + COOLDOWN
    /\ cooled' = COOLDOWN
    /\ pc' = "top"
    /\ UNCHANGED <<final_stats, children, interrupted, jq, summary, current_stats, script, single_iteration, continue_next, log, stats,
                   current_iteration_lines, spawned, cmd, iter_start, last_line,
                   done, reset_epoch, prev_reset, current_epoch, sleep_seconds,
                   exit_clock, slept, failure>>

\* KeyboardInterrupt while main() blocks: "Interrupted by user".  Nothing is
\* done about the child; only Popen.wait, when it is the call interrupted,
\* gives the child a moment to end before it lets the exception go on
Interrupt ==
    /\ pc \in {"reading", "waiting", "sleeping", "cooldown"}
    /\ interrupted' = TRUE
    /\ pc' = KeyboardInterrupt(pc)
    /\ children' \in (IF pc = "waiting" THEN {children, Reaped(children)}
                      ELSE {children})
    /\ UNCHANGED <<final_stats, jq, summary, current_stats, script, single_iteration, continue_next, log, clock, stats,
                   current_iteration_lines, spawned, cmd, iter_start, last_line,
                   done, reset_epoch, prev_reset, current_epoch, sleep_seconds,
                   exit_clock, slept, cooled, failure>>

Next ==
    Spawn \/ ReadLine \/ EndOfOutput \/ ChildExit \/ SleepDone \/ CooldownDone
        \/ Interrupt

Spec == Init /\ [][Next]_vars

-----------------------------------------------------------------------------
(* The detector functions on their own: a line, a script and a time of day   *)
(* are chosen, then one of the two predicates is applied to the line.        *)

LNumber == [raw |-> "text", json |-> JInt(123)]
LString == [raw |-> "text", json |-> JStr(<<"result">>)]
LNull == [raw |-> "text", json |-> JNull]
LErrResultInt ==
    [raw |-> "text", json |-> JDict([is_error |-> JBool(TRUE), result |-> JInt(5)])]
LNoSignal ==
    [raw |-> "text",
     json |-> JDict([type |-> JStr(<<"result">>), is_error |-> JBool(FALSE),
                     result |-> JStr(<<"all", " ", "tasks">>)])]
LErrNoLimit ==
    [raw |-> "text",
     json |-> JDict([is_error |-> JBool(TRUE), result |-> JStr(<<"x">>)])]

\* lines that carry no terminal signal: empty, not JSON, JSON but no object,
\* objects without a rate-limit notice and without a sentinel
NoSignalLines ==
    {LEmpty, LBlank, LGarbage, LArray, LNumber, LString, LNull, LAssistant,
     LResultInt, LErrResultInt, LNoSignal, LErrNoLimit}

\* an error record whose result is the given text
LimitRecord(text) ==
    [raw |-> "text", json |-> JDict([is_error |-> JBool(TRUE), result |-> JStr(text)])]

\* notices of the pipe-delimited form: the words of the notice, the text after
\* the pipe and the integer it denotes; `claude` tells whether the notice
\* names Claude before the limit, `reached` whether it says "limit reached"
\* in full
E_1700000000 == <<"1", "7", "0", "0", "0", "0", "0", "0", "0", "0">>
PipeCases ==
    {[notice |-> <<"Claude", " ", "limit", " ", "reached">>,
      after |-> E_1700000000, n |-> 1700000000, claude |-> TRUE, reached |-> TRUE],
     [notice |-> <<"Claude", " ", "usage", " ", "limit", " ", "reached">>,
      after |-> <<"9", "0", "0", "0">>, n |-> 9000, claude |-> TRUE, reached |-> TRUE],
     [notice |-> <<"claude", " ", "LIMIT", " ", " ", "REACHED">>,
      after |-> <<" ", "0", "0", "7", " ">>, n |-> 7, claude |-> TRUE, reached |-> TRUE],
     [notice |-> <<"Usage", " ", "limit", " ", "reached">>,
      after |-> E_1700000000, n |-> 1700000000, claude |-> FALSE, reached |-> TRUE],
     [notice |-> <<"Claude", " ", "limit", " ", "reach">>,
      after |-> E_1700000000, n |-> 1700000000, claude |-> TRUE, reached |-> FALSE]}

PipeLine(c) == LimitRecord(c.notice \o <<"|">> \o c.after)

PipeLines == {PipeLine(c) : c \in PipeCases}

\* notices of the "resets <H>am/pm" form: the digits and the suffix as
\* written, the hour they denote on a 24-hour clock
ResetsCases ==
    {[digits |-> <<"3">>, am_pm |-> "am", h24 |-> 3],
     [digits |-> <<"3">>, am_pm |-> "PM", h24 |-> 15],
     [digits |-> <<"1", "1">>, am_pm |-> "am", h24 |-> 11],
     [digits |-> <<"1", "1">>, am_pm |-> "pm", h24 |-> 23],
     [digits |-> <<"1", "2">>, am_pm |-> "am", h24 |-> 0],
     [digits |-> <<"1", "2">>, am_pm |-> "pm", h24 |-> 12],
     [digits |-> <<"1", "3">>, am_pm |-> "pm", h24 |-> 25],
     [digits |-> <<"2", "4">>, am_pm |-> "am", h24 |-> 24]}

ResetsText(c) ==
    <<"Usage", " ", "limit", " ", "reached", ",", " ", "resets", " ">>
        \o c.digits \o <<c.am_pm>>

\* the notice as an error result
ResetsLine(c) == LimitRecord(ResetsText(c))

\* the notice as the text of an assistant message
ResetsAssistantLine(c) ==
    [raw |-> "text",
     json |-> JDict([type |-> JStr(<<"assistant">>),
                     message |-> JDict([content |->
                         JList(<<JDict([type |-> JStr(<<"text">>),
                                        text |-> JStr(ResetsText(c))])>>)])])]

ResetsLines == {ResetsLine(c) : c \in ResetsCases} \cup {ResetsAssistantLine(c) : c \in ResetsCases}

\* the notice as the text of an assistant message that is also marked as an
\* error and carries a result of its own
ResetsAssistantErrorLine(c) ==
    [raw |-> "text",
     json |-> JDict([type |-> JStr(<<"assistant">>), is_error |-> JBool(TRUE),
                     result |-> JStr(<<"x">>),
                     message |-> JDict([content |->
                         JList(<<JDict([type |-> JStr(<<"text">>),
                                        text |-> JStr(ResetsText(c))])>>)])])]

\* the notice as the result of a record that is no error, and as the text of
\* a user message
ResetsPlainLines(c) ==
    {[raw |-> "text",
      json |-> JDict([type |-> JStr(<<"result">>), is_error |-> JBool(FALSE),
                      result |-> JStr(ResetsText(c))])],
     [raw |-> "text",
      json |-> JDict([type |-> JStr(<<"user">>),
                      message |-> JDict([content |->
                          JList(<<JDict([type |-> JStr(<<"text">>),
                                         text |-> JStr(ResetsText(c))])>>)])])]}

MixedLines ==
    {ResetsAssistantErrorLine(c) : c \in ResetsCases}
        \cup UNION {ResetsPlainLines(c) : c \in ResetsCases}

\* a record with the given result text
CompletionRecord(text) == [raw |-> "text", json |-> JDict([result |-> JStr(text)])]

T_DoneTasks == <<"DONE", ":", " ", "all", " ", "tasks", " ", "complete">>

\* result texts with and without the sentinels
BaseResults ==
    {T_DoneTasks,
     <<"ACTUALLY_WORKING">>,
     <<"all", " ", "tasks", " ", "ACTUALLY_WORKING", " ", "complete">>,
     <<"all", " ", "tasks">>,
     <<"all", " ", "DONE">>,
     <<"DONE", " ", "ACTUALLY_WORKING">>}

\* the spellings of a sentinel that differ in letter case only
CaseForms(t) ==
    CASE t = "DONE" -> {"DONE", "Done", "done"}
      [] t = "ACTUALLY_WORKING" -> {"ACTUALLY_WORKING", "Actually_Working",
                                    "actually_working"}
      [] OTHER -> {t}

RECURSIVE CaseVariants(_)
CaseVariants(s) ==
    IF s = <<>> THEN {<<>>}
    ELSE {<<h>> \o t : h \in CaseForms(Head(s)), t \in CaseVariants(Tail(s))}

\* whitespace before or after the text
Pads == {<<>>, <<" ">>, <<"\t", " ">>}

\* a text with its sentinels in any letter case and with padding
Variants(s) == {l \o v \o r : l \in Pads, v \in CaseVariants(s), r \in Pads}

CompletionLines == {CompletionRecord(v) : v \in UNION {Variants(b) : b \in BaseResults}}

DetectorLines ==
    CompletionLines \cup NoSignalLines \cup {LDone, LLimit, LDoneLimit, LResets, LBadEpoch} \cup PipeLines
        \cup ResetsLines \cup MixedLines

\* the time of day at which a detector is called: 02:00, 03:00 and 05:00 of
\* one day, 14:00 of the next
DetectClocks == StartClocks \cup {10800, 136800}

InitDetect ==
    /\ script \in Scripts
    /\ single_iteration = FALSE
    /\ pc = "input"
    /\ continue_next = FALSE
    /\ log = <<>>
    /\ clock \in DetectClocks
    /\ stats = StatsTracker(clock)
    /\ current_iteration_lines = <<>>
    /\ spawned = 0
    /\ cmd = <<>>
    /\ iter_start = 0
    /\ last_line \in DetectorLines
    /\ done = "unevaluated"
    /\ reset_epoch = Unevaluated
    /\ prev_reset = Unevaluated
    /\ current_epoch = 0
    /\ sleep_seconds = 0
    /\ exit_clock = 0
    /\ slept = -1
    /\ cooled = 0
    /\ failure = "none"
    /\ current_stats = NoStats
    /\ children = 0
    /\ interrupted = FALSE
    /\ jq = "unused"
    /\ summary = NoSummary
    /\ final_stats = NoStats

\* the outcome of a completion predicate, as main() records it
DoneOutcome(d) == IF d.exc # "none" THEN "raised" ELSE IF d.val THEN "true" ELSE "false"

\* rate_limit_reset_epoch(last_line)
ApplyRateLimit ==
    /\ pc = "input"
    /\ pc' = "rate_limit_applied"
    /\ reset_epoch' = Detect(script, last_line, clock)
    /\ failure' = reset_epoch'.exc
    /\ UNCHANGED <<final_stats, children, interrupted, jq, summary, current_stats, script, single_iteration, continue_next, log, clock, stats,
                   current_iteration_lines, spawned, cmd, iter_start, last_line,
                   done, prev_reset, current_epoch, sleep_seconds, exit_clock,
                   slept, cooled>>

\* is_done(last_line) / is_actually_working(last_line)
ApplyCompletion ==
    /\ pc = "input"
    /\ script # "claude_loop"
    /\ pc' = "completion_applied"
    /\ done' = DoneOutcome(Complete(script, last_line))
    /\ failure' = Complete(script, last_line).exc
    /\ UNCHANGED <<final_stats, children, interrupted, jq, summary, current_stats, script, single_iteration, continue_next, log, clock, stats,
                   current_iteration_lines, spawned, cmd, iter_start, last_line,
                   reset_epoch, prev_reset, current_epoch, sleep_seconds,
                   exit_clock, slept, cooled>>

NextDetect == ApplyRateLimit \/ ApplyCompletion

SpecDetect == InitDetect /\ [][NextDetect]_vars

-----------------------------------------------------------------------------
(* The StatsTracker on its own: lines are handed to parse_usage_from_json    *)
(* one after the other, iterations are counted, time passes, and get_stats   *)
(* takes a snapshot.                                                         *)

MaxUsageLines == 3     \* lines handed to parse_usage_from_json
\* seconds after StatsTracker() at which the clock is looked at: before and
\* after the first 0.01 hours
ElapsedSeconds == {30, 3600}

\* a line whose usage object is the given JSON value
UsageLine(usage) ==
    [raw |-> "text", json |-> JDict([type |-> JStr(<<"result">>), usage |-> usage])]

LUsageFull == UsageLine(Usage1)
LUsageHour ==
    UsageLine(JDict([input_tokens |-> JInt(5),
                     cache_creation |-> JDict([ephemeral_5m_input_tokens |-> JInt(2),
                                               ephemeral_1h_input_tokens |-> JInt(7)])]))
LUsageOutput == UsageLine(JDict([output_tokens |-> JInt(6)]))
LUsageNegative == UsageLine(JDict([input_tokens |-> JInt(-5)]))
LUsageNull == UsageLine(JNull)
LUsageText == UsageLine(JDict([input_tokens |-> JInt(3), output_tokens |-> JStr(<<"x">>)]))
LCacheNull == UsageLine(JDict([input_tokens |-> JInt(5), cache_creation |-> JNull]))

\* lines with a usage object of integers, or none at all
WellFormedUsageLines == {LUsageFull, LUsageHour, LUsageOutput, LUsageNegative}

\* lines that are empty, no JSON, no object, an object without usage, or an
\* object whose usage or cache_creation is null or holds a text
MalformedUsageLines ==
    {LEmpty, LGarbage, LArray, LAssistant, LUsageNull, LUsageText, LCacheNull}

UsageLines == WellFormedUsageLines \cup MalformedUsageLines

InitStats ==
    /\ script \in {"maker", "fixer"}
    /\ single_iteration = FALSE
    /\ pc = "accumulating"
    /\ continue_next = FALSE
    /\ log = <<>>
    /\ clock = 7200
    /\ stats = StatsTracker(clock)
    /\ current_iteration_lines = <<>>
    /\ spawned = 0
    /\ cmd = <<>>
    /\ iter_start = 0
    /\ last_line = LEmpty
    /\ done = "unevaluated"
    /\ reset_epoch = Unevaluated
    /\ prev_reset = Unevaluated
    /\ current_epoch = 0
    /\ sleep_seconds = 0
    /\ exit_clock = 0
    /\ slept = -1
    /\ cooled = 0
    /\ failure = "none"
    /\ current_stats = NoStats
    /\ children = 0
    /\ interrupted = FALSE
    /\ jq = "unused"
    /\ summary = NoSummary
    /\ final_stats = NoStats

\* what one call of parse_usage_from_json leaves behind: the totals, and the
\* exception if it raised
Parsed(r, line) ==
    /\ stats' = r.st
    /\ failure' = r.exc
    /\ pc' = IF r.exc # "none" THEN "crashed" ELSE pc
    /\ current_iteration_lines' = Append(current_iteration_lines, line)

\* stats.parse_usage_from_json(line)
ParseUsage ==
    /\ pc = "accumulating"
    /\ Len(current_iteration_lines) < MaxUsageLines
    /\ \E line \in UsageLines : Parsed(parse_usage_from_json(stats, line), line)
    /\ UNCHANGED <<final_stats, children, interrupted, jq, summary, script, single_iteration, continue_next, log, clock, spawned, cmd,
                   iter_start, last_line, done, reset_epoch, prev_reset,
                   current_epoch, sleep_seconds, exit_clock, slept, cooled,
                   current_stats>>

\* stats.iterations += 1
CountIteration ==
    /\ pc = "accumulating"
    /\ stats.iterations < MaxSpawns
    /\ stats' = NextIteration(stats)
    /\ UNCHANGED <<final_stats, children, interrupted, jq, summary, script, single_iteration, pc, continue_next, log, clock,
                   current_iteration_lines, spawned, cmd, iter_start, last_line,
                   done, reset_epoch, prev_reset, current_epoch, sleep_seconds,
                   exit_clock, slept, cooled, failure, current_stats>>

\* time passes
Tick ==
    /\ pc = "accumulating"
    /\ \E e \in ElapsedSeconds :
          /\ stats.start_time + e > clock
          /\ clock' = stats.start_time + e
    /\ UNCHANGED <<final_stats, children, interrupted, jq, summary, script, single_iteration, pc, continue_next, log, stats,
                   current_iteration_lines, spawned, cmd, iter_start, last_line,
                   done, reset_epoch, prev_reset, current_epoch, sleep_seconds,
                   exit_clock, slept, cooled, failure, current_stats>>

\* stats.get_stats()
GetStats ==
    /\ pc = "accumulating"
    /\ current_stats' = get_stats(stats, clock)
    /\ pc' = "reported"
    /\ UNCHANGED <<final_stats, children, interrupted, jq, summary, script, single_iteration, continue_next, log, clock, stats,
                   current_iteration_lines, spawned, cmd, iter_start, last_line,
                   done, reset_epoch, prev_reset, current_epoch, sleep_seconds,
                   exit_clock, slept, cooled, failure>>

NextStats == ParseUsage \/ CountIteration \/ Tick \/ GetStats

SpecStats == InitStats /\ [][NextStats]_vars

-----------------------------------------------------------------------------
(* The classifier on its own: a line and a behaviour of the jq helper are     *)
(* chosen, then extract_summary_with_jq is applied to the line.               *)

\* a text of n characters with spaces at the given offsets
TextOfLen(n, spaces) ==
    [i \in 1..n |->
        IF (i - 1) \in spaces THEN " "
        ELSE IF i % 3 = 0 THEN "a" ELSE IF i % 3 = 1 THEN "b" ELSE "c"]

\* texts around the limit of 120 characters, with the last space of the
\* first 120 characters before, at and after offset 100, or with none
SummaryTexts ==
    {TextOfLen(0, {}), TextOfLen(1, {}), TextOfLen(5, {2}), TextOfLen(119, {50, 110}),
     TextOfLen(120, {}), TextOfLen(120, {110}), TextOfLen(121, {}),
     TextOfLen(121, {50}), TextOfLen(121, {99}), TextOfLen(121, {100}),
     TextOfLen(121, {101}), TextOfLen(121, {30, 105, 119}), TextOfLen(121, {120}),
     TextOfLen(125, {100, 122}), TextOfLen(130, {60, 110, 125})}

\* an assistant record with the given content
AssistantRecord(content) ==
    [raw |-> "text",
     json |-> JDict([type |-> JStr(<<"assistant">>),
                     message |-> JDict([content |-> content])])]

TextContent(text) == JDict([type |-> JStr(<<"text">>), text |-> JStr(text)])

ToolContent == JDict([type |-> JStr(<<"tool_use">>), name |-> JStr(<<"Bash">>)])

\* assistant records whose first content item is a text
TextLines ==
    {AssistantRecord(JList(<<TextContent(t)>>)) : t \in SummaryTexts}
        \cup {AssistantRecord(JList(<<TextContent(t), ToolContent>>)) : t \in SummaryTexts}
        \cup {AssistantRecord(JList(<<JDict([type |-> JStr(<<"text">>)])>>))}

\* assistant records whose first content item is a tool use: alone, without a
\* name, followed by a text, followed by another tool use
ToolAloneLines ==
    {AssistantRecord(JList(<<ToolContent>>)),
     AssistantRecord(JList(<<JDict([type |-> JStr(<<"tool_use">>)])>>))}

ToolFollowedLines ==
    {AssistantRecord(JList(<<ToolContent, TextContent(<<"x">>)>>)),
     AssistantRecord(JList(<<ToolContent, ToolContent>>))}

\* assistant records of any other shape: no content item, no content, no
\* message, a first item of another type or of none
OtherAssistantLines ==
    {AssistantRecord(JList(<<>>)),
     [raw |-> "text",
      json |-> JDict([type |-> JStr(<<"assistant">>), message |-> JDict(<<>>)])],
     [raw |-> "text", json |-> JDict([type |-> JStr(<<"assistant">>)])],
     AssistantRecord(JList(<<JDict([type |-> JStr(<<"thinking">>)])>>)),
     AssistantRecord(JList(<<JDict([text |-> JStr(<<"x">>)]), ToolContent>>))}

\* user records
UserLines ==
    {[raw |-> "text",
      json |-> JDict([type |-> JStr(<<"user">>),
                      message |-> JDict([content |-> c])])] :
        c \in {JStr(<<"x">>), JList(<<JDict([type |-> JStr(<<"tool_result">>)])>>)}}
        \cup {[raw |-> "text", json |-> JDict([type |-> JStr(<<"user">>)])]}

\* a system record with the given fields next to its type
SystemRecord(f) ==
    [raw |-> "text", json |-> JDict([type |-> JStr(<<"system">>)] @@ f)]

\* system records with a tools array of 0, 3 and 12 entries or with none
SystemCases ==
    {[fields |-> [subtype |-> JStr(<<"init">>),
                  tools |-> JList(<<JStr(<<"a">>), JStr(<<"b">>), JStr(<<"c">>)>>)],
      count |-> <<"3">>],
     [fields |-> [subtype |-> JStr(<<"init">>),
                  tools |-> JList([i \in 1..12 |-> JStr(<<"t">>)])],
      count |-> <<"1", "2">>],
     [fields |-> [subtype |-> JStr(<<"init">>), tools |-> JList(<<>>)],
      count |-> <<"0">>],
     [fields |-> [subtype |-> JStr(<<"init">>)], count |-> <<"0">>],
     [fields |-> [tools |-> JList(<<JStr(<<"a">>)>>)], count |-> <<"1">>],
     [fields |-> <<>>, count |-> <<"0">>]}

SystemLines == {SystemRecord(c.fields) : c \in SystemCases}

\* records of another type or of none
OtherTypeLines ==
    {[raw |-> "text", json |-> JDict([type |-> JStr(<<"result">>),
                                      result |-> JStr(<<"DONE">>)])],
     [raw |-> "text", json |-> JDict([type |-> JStr(<<"stream_event">>)])],
     [raw |-> "text", json |-> JDict([result |-> JInt(5)])],
     [raw |-> "text", json |-> JDict([type |-> JNull])]}

\* records with a field of the wrong shape
WrongShapeLines ==
    {[raw |-> "text", json |-> JDict([type |-> JStr(<<"assistant">>), message |-> m])] :
        m \in {JNull, JStr(<<"x">>), JList(<<>>)}}
        \cup {AssistantRecord(c) :
                c \in {JNull, JStr(<<"a", "b", "c">>), JInt(5), JBool(TRUE),
                       JDict([a |-> JInt(1)]), JList(<<JStr(<<"x">>)>>),
                       JList(<<JNull>>),
                       JList(<<JDict([type |-> JStr(<<"text">>), text |-> JNull])>>),
                       JList(<<JDict([type |-> JStr(<<"text">>), text |-> JInt(5)])>>),
                       JList(<<JDict([type |-> JStr(<<"tool_use">>),
                                      name |-> JInt(7)])>>)}}
        \cup {SystemRecord([tools |-> t]) : t \in {JNull, JInt(3), JBool(TRUE)}}
        \cup {SystemRecord([message |-> JStr(<<"x">>)])}

\* lines that are no JSON object
NoObjectLines ==
    {[raw |-> "empty", json |-> JInvalid], [raw |-> "blank", json |-> JInvalid],
     [raw |-> "text", json |-> JInvalid], [raw |-> "text", json |-> JList(<<JInt(1)>>)],
     [raw |-> "text", json |-> JInt(123)], [raw |-> "text", json |-> JStr(<<"x">>)],
     [raw |-> "text", json |-> JNull]}

SummaryLines ==
    TextLines \cup ToolAloneLines \cup ToolFollowedLines \cup OtherAssistantLines
        \cup UserLines \cup SystemLines \cup OtherTypeLines \cup WrongShapeLines
        \cup NoObjectLines

InitSummary ==
    /\ script = "claude_loop"
    /\ single_iteration = FALSE
    /\ pc = "input"
    /\ continue_next = FALSE
    /\ log = <<>>
    /\ clock = 7200
    /\ stats = StatsTracker(clock)
    /\ current_iteration_lines = <<>>
    /\ spawned = 0
    /\ cmd = <<>>
    /\ iter_start = 0
    /\ last_line \in SummaryLines
    /\ done = "unevaluated"
    /\ reset_epoch = Unevaluated
    /\ prev_reset = Unevaluated
    /\ current_epoch = 0
    /\ sleep_seconds = 0
    /\ exit_clock = 0
    /\ slept = -1
    /\ cooled = 0
    /\ failure = "none"
    /\ current_stats = NoStats
    /\ children = 0
    /\ interrupted = FALSE
    /\ jq \in JqBehaviours
    /\ summary = NoSummary
    /\ final_stats = NoStats

\* summary = extract_summary_with_jq(line)
ApplySummary ==
    /\ pc = "input"
    /\ pc' = "summarised"
    /\ summary' = extract_summary_with_jq(last_line, jq)
    /\ failure' = summary'.exc
    /\ UNCHANGED <<final_stats, children, interrupted, jq, current_stats, script, single_iteration,
                   continue_next, log, clock, stats, current_iteration_lines,
                   spawned, cmd, iter_start, last_line, done, reset_epoch,
                   prev_reset, current_epoch, sleep_seconds, exit_clock, slept,
                   cooled>>

NextSummary == ApplySummary

SpecSummary == InitSummary /\ [][NextSummary]_vars

-----------------------------------------------------------------------------
(* last_json_line on its own, byte by byte: a file is chosen, then the        *)
(* function is applied to it.  Here log is the file, [exists, bytes], and     *)
(* last_line is the string returned.                                          *)

MaxBytes == 4        \* bytes in the file

\* the bytes of the files: the newline, the space and two others
FileBytes == {"\n", " ", "x", "y"}

RECURSIVE BytesUpTo(_)
BytesUpTo(n) ==
    IF n = 0 THEN {<<>>}
    ELSE BytesUpTo(n - 1)
            \cup {Append(s, b) : s \in {t \in BytesUpTo(n - 1) : Len(t) = n - 1},
                                 b \in FileBytes}

\* no file, or a file of up to MaxBytes bytes
Files ==
    {[exists |-> FALSE, bytes |-> <<>>]}
        \cup {[exists |-> TRUE, bytes |-> s] : s \in BytesUpTo(MaxBytes)}

\* fp.tell() after fp.seek(pos) and fp.read(1)
Tell(pos) == pos + 1

\* variant: only the newline that ends the file is skipped
AtNewline_last_only(bytes, pos, buf, rest) ==
    IF pos = Len(bytes) - 1 /\ buf = <<>> THEN rest ELSE buf

\* `if char == b"\n"`: skipped while nothing has been collected (`continue`,
\* or falling through to `pos -= 1`), the end of the scan otherwise (`break`);
\* rest is what the scan gives from pos - 1 on
AtNewline(bytes, pos, buf, rest) ==
    IF pos = Tell(pos) - 1 /\ buf = <<>> THEN rest
    ELSE IF buf # <<>> THEN buf
    ELSE rest

\* `while pos >= 0`: pos is the offset read, buf the bytes collected so far,
\* last byte first
RECURSIVE ScanBack(_, _, _)
ScanBack(bytes, pos, buf) ==
    IF pos < 0 THEN buf
    ELSE IF bytes[pos + 1] = "\n"
    THEN AtNewline(bytes, pos, buf, ScanBack(bytes, pos - 1, buf))
    ELSE ScanBack(bytes, pos - 1, Append(buf, bytes[pos + 1]))

\* buf.reverse()
Reverse(buf) == [i \in 1..Len(buf) |-> buf[Len(buf) + 1 - i]]

\* last_json_line(path), for a file of single-byte characters
last_json_line_bytes(path) ==
    IF ~path.exists THEN <<>>
    ELSE Reverse(ScanBack(path.bytes, Len(path.bytes) - 1, <<>>))

InitFile ==
    /\ script \in Scripts
    /\ single_iteration = FALSE
    /\ pc = "input"
    /\ continue_next = FALSE
    /\ log \in Files
    /\ clock = 7200
    /\ stats = StatsTracker(clock)
    /\ current_iteration_lines = <<>>
    /\ spawned = 0
    /\ cmd = <<>>
    /\ iter_start = 0
    /\ last_line = <<>>
    /\ done = "unevaluated"
    /\ reset_epoch = Unevaluated
    /\ prev_reset = Unevaluated
    /\ current_epoch = 0
    /\ sleep_seconds = 0
    /\ exit_clock = 0
    /\ slept = -1
    /\ cooled = 0
    /\ failure = "none"
    /\ current_stats = NoStats
    /\ children = 0
    /\ interrupted = FALSE
    /\ jq = "unused"
    /\ summary = NoSummary
    /\ final_stats = NoStats

\* last_line = last_json_line(OUTPUT_PATH)
ApplyLastLine ==
    /\ pc = "input"
    /\ pc' = "line_read"
    /\ last_line' = last_json_line_bytes(log)
    /\ UNCHANGED <<final_stats, children, interrupted, jq, summary, current_stats, script,
                   single_iteration, continue_next, log, clock, stats,
                   current_iteration_lines, spawned, cmd, iter_start, done,
                   reset_epoch, prev_reset, current_epoch, sleep_seconds,
                   exit_clock, slept, cooled, failure>>

NextFile == ApplyLastLine

SpecFile == InitFile /\ [][NextFile]_vars

-----------------------------------------------------------------------------
(* Properties of the supervisor loop (checked under Spec) *)

\* the resume flag is among the arguments of the child
HasResume(c) == \E i \in 1..Len(c) : c[i] = "--continue"

\* main() has finished the work that follows the exit of the latest child
\* and the log is still as that child left it
AfterExit ==
    \/ pc \in {"sleeping", "cooldown", "stopped_success", "stopped_single"}
    \/ pc = "top" /\ spawned >= 1

\* the log as it was when the latest child was started
LogAtSpawn == SubSeq(log, 1, iter_start)

\* the line carries the sentinel that the script looks for
Declares(scr, raw_json) ==
    IF scr = "maker" THEN is_done(raw_json) = BRet(TRUE)
    ELSE IF scr = "fixer" THEN is_actually_working(raw_json) = BRet(TRUE)
    ELSE is_done(raw_json) = BRet(TRUE) \/ is_actually_working(raw_json) = BRet(TRUE)

\* C1: the first child is started without the resume flag; every later child
\* carries the resume flag in its argument list exactly when the rate-limit
\* detector returned an epoch at the boundary just before it was started.
C1_ResumeIffRateLimited ==
    spawned >= 1 =>
        (HasResume(cmd) <=> (spawned > 1 /\ prev_reset.exc = "none" /\ prev_reset.some))

C1_Witness_ResumedAfterLimit ==
    /\ pc = "reading"
    /\ spawned = 2
    /\ prev_reset.some
    /\ HasResume(cmd)

\* C2: in maker.py and fixer.py the completion predicate is applied to the
\* last line before the rate-limit predicate; when it holds the loop stops at
\* once, without a sleep, a cooldown or another child, and the rate-limit
\* predicate is not applied, even if the line also carries a reset epoch.
C2_CompletionBeforeRateLimit ==
    script # "claude_loop" =>
        /\ (pc \in {"sleeping", "cooldown", "stopped_single"} \/ (pc = "top" /\ spawned >= 1))
              => ~Declares(script, last_json_line(log))
        /\ (pc = "reading" /\ spawned > 1)
              => ~Declares(script, last_json_line(LogAtSpawn))
        /\ reset_epoch.exc # "unevaluated" => done = "false"
        /\ done = "true" =>
              /\ pc = "stopped_success"
              /\ reset_epoch = Unevaluated
              /\ slept = -1
              /\ cooled = 0
              /\ clock = exit_clock
              /\ ~continue_next

C2_Witness_CompleteAndLimited ==
    /\ script # "claude_loop"
    /\ pc = "stopped_success"
    /\ Declares(script, last_line)
    /\ rate_limit_reset_epoch_maker(last_line).some

C5_CooldownBetweenChildren ==
    /\ (pc = "reading" /\ spawned > 1) =>
          /\ cooled = 60
          /\ clock = exit_clock + 60 + (IF slept >= 0 THEN slept ELSE 0)
    /\ (pc = "top" /\ spawned >= 1) => cooled = 60
    /\ pc \in {"stopped_success", "stopped_single"} =>
          /\ cooled = 0
          /\ clock = exit_clock + (IF slept >= 0 THEN slept ELSE 0)

C5_Witness_CooldownAfterSleep ==
    /\ pc = "reading"
    /\ spawned = 2
    /\ slept > 0
    /\ cooled = 60
    /\ clock = exit_clock + 60 + slept

\* C6: in single-iteration mode exactly one child is started; after its exit
\* the branch is evaluated, a rate-limit sleep is performed in full, and then
\* the supervisor stops whatever the last line was: no cooldown, no second
\* child.
C6_SingleIteration ==
    single_iteration =>
        /\ spawned <= 1
        /\ pc # "cooldown"
        /\ ~(pc = "top" /\ spawned >= 1)
        /\ pc \in {"stopped_single", "stopped_success"} => spawned = 1
        /\ pc = "stopped_single" =>
              /\ done = "false"
              /\ reset_epoch.exc = "none"
              /\ reset_epoch.some => (slept = sleep_seconds /\ clock >= reset_epoch.epoch)
              /\ ~reset_epoch.some => slept = -1

C6_Witness_SingleAfterSleep ==
    /\ single_iteration
    /\ pc = "stopped_single"
    /\ spawned = 1
    /\ reset_epoch.some
    /\ slept > 0

\* C7 as stated: an iteration in which the child writes no line at all is
\* treated as carrying no signal: the supervisor neither stops with success
\* nor sleeps nor fails, and the next child is started fresh after the
\* cooldown.
C7_SilentChildIsNoSignal ==
    (spawned >= 1 /\ Len(log) = iter_start /\ pc \notin {"reading", "waiting", "interrupted"}) =>
        /\ pc \in {"cooldown", "top", "stopped_single"}
        /\ ~continue_next
        /\ slept = -1

\* C8 as stated: whenever the supervisor has consulted the log after the exit
\* of a child and the log has a non-empty line, the last non-empty line was
\* written by the iteration that just completed.
C8_LastLineOfThisIteration ==
    (AfterExit /\ LastIndex(log) > 0) => LastIndex(log) > iter_start

\* C9 as stated: nothing in the output of a child ends the supervisor with an
\* unhandled failure.
C9_NoUnhandledFailure == pc # "crashed" /\ failure = "none"

-----------------------------------------------------------------------------
(* Properties of the detector functions (checked under SpecDetect) *)

\* C10 as stated: on a line that is empty, is not JSON, is JSON but no
\* object, or is an object without a terminal signal, both predicates return
\* the no-signal result and never raise.
C10_NoSignalNeverRaises ==
    (pc \in {"rate_limit_applied", "completion_applied"} /\ last_line \in NoSignalLines) =>
        /\ failure = "none"
        /\ ~reset_epoch.some
        /\ done # "true"

\* the notice of case c is one that the pattern of the script matches
OwnPattern(scr, c) == IF scr = "claude_loop" THEN c.reached ELSE c.claude

\* C11 as stated: for every error record whose result is a limit-reached
\* notice followed by a pipe and an epoch integer, the detector of each of
\* the three scripts returns exactly that integer.
C11_PipeEpochInEveryScript ==
    \A c \in PipeCases :
        (pc = "rate_limit_applied" /\ last_line = PipeLine(c))
            => reset_epoch = RSome(c.n)

\* C11 amended: the detector returns exactly the integer after the pipe when
\* the notice matches the pattern of the script itself (maker.py, fixer.py:
\* "Claude" ... "usage"/"use"/"limit" ... "reach"; claude_loop.py: "limit",
\* whitespace, "reached"), and None when it does not.
C11_PipeEpochOwnPattern ==
    \A c \in PipeCases :
        (pc = "rate_limit_applied" /\ last_line = PipeLine(c))
            => reset_epoch = (IF OwnPattern(script, c) THEN RSome(c.n) ELSE RNone)

C11_Witness_ScenarioA ==
    /\ pc = "rate_limit_applied"
    /\ script = "claude_loop"
    /\ last_line = LimitRecord(<<"Claude", " ", "limit", " ", "reached", "|">> \o E_1700000000)
    /\ reset_epoch = RSome(1700000000)

\* claude_loop.py has been applied to a notice of case c, in either form
ResetsApplied(c) ==
    /\ script = "claude_loop"
    /\ pc = "rate_limit_applied"
    /\ last_line \in {ResetsLine(c), ResetsAssistantLine(c)}

\* hour h of the day of the clock
TodayAt(h) == (clock - (clock % 86400)) + h * 3600

\* C12 as stated: for a notice of the "resets <H>am/pm" form claude_loop.py
\* returns the epoch of today at hour H when that is strictly after now, and
\* otherwise the epoch of the same hour one day later.
C12_NextOccurrenceOfResetHour ==
    \A c \in ResetsCases :
        (ResetsApplied(c) /\ c.h24 \in 0..23) =>
            reset_epoch = RSome(IF TodayAt(c.h24) > clock THEN TodayAt(c.h24)
                                ELSE TodayAt(c.h24) + 86400)

\* C13: 12am is hour 0, 12pm hour 12, H pm hour H + 12 and H am hour H for H
\* in 1..11; an hour that converts to a value outside 0..23 gives "no rate
\* limit", neither an epoch nor a failure.
C13_TwelveHourConversion ==
    \A c \in ResetsCases :
        ResetsApplied(c) =>
            /\ To24Hour(DigitsValue(c.digits), Lower(c.am_pm)) = c.h24
            /\ c.h24 \notin 0..23 => (reset_epoch = RNone /\ failure = "none")
            /\ (c.h24 \in 0..23 /\ TodayAt(c.h24) > clock)
                  => reset_epoch = RSome(TodayAt(c.h24))

C13_Witness_Noon ==
    /\ script = "claude_loop"
    /\ pc = "rate_limit_applied"
    /\ clock = 7200
    /\ last_line = ResetsLine([digits |-> <<"1", "2">>, am_pm |-> "pm", h24 |-> 12])
    /\ reset_epoch = RSome(43200)

-----------------------------------------------------------------------------
(* Further properties of the supervisor loop (checked under Spec) *)

\* C14: when the last line is a limit-reached error record whose text after
\* the first pipe is no integer, the detector returns None without raising,
\* the supervisor does not sleep for a rate limit, resume-next stays false
\* and the next child is started fresh after the cooldown.
C14_BadEpochIsNoRateLimit ==
    last_line = LBadEpoch =>
        /\ reset_epoch = RNone
        /\ failure = "none"
        /\ ~continue_next
        /\ slept = -1
        /\ pc \notin {"sleeping", "crashed", "stopped_success"}
        /\ pc = "reading" => (~HasResume(cmd) /\ cooled = 60)

C14_Witness_FreshAfterBadEpoch ==
    /\ pc = "reading"
    /\ spawned = 2
    /\ last_line = LBadEpoch
    /\ LastIndex(LogAtSpawn) > 0
    /\ ~HasResume(cmd)

-----------------------------------------------------------------------------
(* Properties of the completion predicates (checked under SpecDetect) *)

\* C15: is_done and is_actually_working give the same answer for a result
\* text and for every variant of it that differs in the letter case of the
\* sentinel or in leading and trailing whitespace.
C15_CaseAndPaddingInvariant ==
    \A b \in BaseResults :
        (pc = "completion_applied" /\ last_line \in {CompletionRecord(v) : v \in Variants(b)})
            => done = DoneOutcome(Complete(script, CompletionRecord(b)))

C15_Witness_LowerCasePadded ==
    /\ pc = "completion_applied"
    /\ script = "maker"
    /\ last_line = CompletionRecord(<<"\t", " ", "done", ":", " ", "all", " ", "tasks",
                                      " ", "complete", " ">>)
    /\ done = "true"

\* the text of the result field of a line, if it has one
HasResultText(raw_json) ==
    /\ raw_json.raw = "text"
    /\ raw_json.json.k = "dict"
    /\ "result" \in DOMAIN raw_json.json.f
    /\ raw_json.json.f["result"].k = "str"

ResultText(raw_json) == raw_json.json.f["result"].s

\* the first token of s that is no whitespace is the sentinel DONE in some
\* letter case
BeginsWithDone(s) ==
    \E i \in 1..Len(s) :
        /\ s[i] \in {"DONE", "Done", "done"}
        /\ \A j \in 1..(i - 1) : s[j] \in {" ", "\t"}

\* the sentinel ACTUALLY_WORKING occurs in s in some letter case
HoldsActuallyWorking(s) ==
    \E i \in 1..Len(s) : s[i] \in {"ACTUALLY_WORKING", "Actually_Working", "actually_working"}

\* C16: prefix mode (maker.py, DONE) returns true exactly when the record has
\* a result field whose trimmed upper-cased text starts with the sentinel;
\* containment mode (fixer.py, ACTUALLY_WORKING) returns true exactly when
\* the sentinel occurs anywhere in that text; a record without a result
\* field is never complete.  For {"result":"DONE: all tasks complete"} prefix
\* mode returns true and containment mode returns false.
C16_PrefixAndContainment ==
    pc = "completion_applied" =>
        /\ script = "maker" =>
              (done = "true" <=> (HasResultText(last_line) /\ BeginsWithDone(ResultText(last_line))))
        /\ script = "fixer" =>
              (done = "true" <=> (HasResultText(last_line) /\ HoldsActuallyWorking(ResultText(last_line))))
        /\ last_line = CompletionRecord(T_DoneTasks) =>
              done = (IF script = "maker" THEN "true" ELSE "false")

C16_Witness_ScenarioC ==
    /\ pc = "completion_applied"
    /\ script = "fixer"
    /\ last_line = CompletionRecord(T_DoneTasks)
    /\ done = "false"

-----------------------------------------------------------------------------
(* Properties of the StatsTracker (checked under SpecStats) *)

\* the integer under key name of a JSON object's fields, 0 when absent
FieldInt(f, name) == IF name \in DOMAIN f /\ f[name].k = "int" THEN f[name].n ELSE 0

\* the fields of a JSON value that is an object, none otherwise
FieldsOf(v) == IF v.k = "dict" THEN v.f ELSE <<>>

\* the usage object of a line and its cache_creation object
UsageFields(line) ==
    IF line.raw = "text" /\ line.json.k = "dict" /\ "usage" \in DOMAIN line.json.f
    THEN FieldsOf(line.json.f["usage"])
    ELSE <<>>

CacheFields(line) ==
    IF "cache_creation" \in DOMAIN UsageFields(line)
    THEN FieldsOf(UsageFields(line)["cache_creation"])
    ELSE <<>>

RECURSIVE SumUsage(_, _)
SumUsage(lines, name) ==
    IF lines = <<>> THEN 0
    ELSE FieldInt(UsageFields(Head(lines)), name) + SumUsage(Tail(lines), name)

RECURSIVE SumCache(_, _)
SumCache(lines, name) ==
    IF lines = <<>> THEN 0
    ELSE FieldInt(CacheFields(Head(lines)), name) + SumCache(Tail(lines), name)

\* the four totals of a StatsTracker
Totals(st) ==
    <<st.total_input_tokens, st.total_output_tokens, st.total_cache_read_tokens,
      st.total_cache_write_tokens>>

\* the lines in the order given by the permutation p
Reordered(lines, p) == [i \in 1..Len(lines) |-> lines[p[i]]]

\* C17: after parse_usage_from_json has been applied to a sequence of
\* records, each total is the sum over the records of the usage field, absent
\* fields counting 0; the cache-write total is the sum of the 5-minute and
\* the 1-hour cache tokens; the order of the records does not matter.
C17_TotalsAreSums ==
    failure = "none" =>
        /\ Totals(stats) =
              <<SumUsage(current_iteration_lines, "input_tokens"),
                SumUsage(current_iteration_lines, "output_tokens"),
                SumUsage(current_iteration_lines, "cache_read_input_tokens"),
                SumCache(current_iteration_lines, "ephemeral_5m_input_tokens")
                    + SumCache(current_iteration_lines, "ephemeral_1h_input_tokens")>>
        /\ \A p \in Permutations(1..Len(current_iteration_lines)) :
              Totals(ParseAll(StatsTracker(stats.start_time),
                              Reordered(current_iteration_lines, p)).st)
                  = Totals(stats)

C17_Witness_ThreeRecords ==
    /\ pc = "accumulating"
    /\ failure = "none"
    /\ current_iteration_lines = <<LUsageFull, LUsageHour, LUsageOutput>>
    /\ Totals(stats) = <<6, 8, 3, 13>>

\* the latest line handed to parse_usage_from_json is a malformed one
MalformedParsed ==
    /\ Len(current_iteration_lines') = Len(current_iteration_lines) + 1
    /\ current_iteration_lines'[Len(current_iteration_lines')] \in MalformedUsageLines

\* C18 as stated: on a malformed line parse_usage_from_json does not raise
\* and leaves all four totals exactly as they were.
C18_MalformedUsageIsNoOp ==
    [][MalformedParsed => (failure' = "none" /\ Totals(stats') = Totals(stats))]_vars

\* C19 as stated: no call of parse_usage_from_json and no step of the loop
\* lowers one of the four totals or the iteration counter.
C19_TotalsNeverDecrease ==
    [][/\ stats'.total_input_tokens >= stats.total_input_tokens
       /\ stats'.total_output_tokens >= stats.total_output_tokens
       /\ stats'.total_cache_read_tokens >= stats.total_cache_read_tokens
       /\ stats'.total_cache_write_tokens >= stats.total_cache_write_tokens
       /\ stats'.iterations >= stats.iterations]_vars

\* the fractions a and b are the same number
SameRate(a, b) == a.num * b.den = b.num * a.den

\* C20 as stated: in every snapshot of get_stats the token rate is
\* tokens.total divided by the elapsed hours floored to 0.01 (36 seconds),
\* and the cost rate is total_cost divided by the same floored hours.
C20_RatesOfTheSnapshot ==
    pc = "reported" =>
        /\ SameRate(current_stats.rate.tokens_per_hour,
                    [num |-> current_stats.tokens.total * 3600,
                     den |-> IF current_stats.elapsed_seconds < 36 THEN 36
                             ELSE current_stats.elapsed_seconds])
        /\ SameRate(current_stats.rate.cost_per_hour,
                    [num |-> current_stats.total_cost * 3600,
                     den |-> IF current_stats.elapsed_seconds < 36 THEN 36
                             ELSE current_stats.elapsed_seconds])

-----------------------------------------------------------------------------
(* Properties of the processes and of the log (checked under Spec) *)

\* C26: at most one agent child exists at any time; while main() reads the
\* output of a child or waits for it there is exactly one, and whenever main()
\* is at the top of its loop, about to start a child, the previous one has
\* been read to its end and waited for.
C26_OneChildAtATime ==
    /\ children \in {0, 1}
    /\ pc \in {"reading", "waiting"} => children = 1
    /\ pc \in {"top", "sleeping", "cooldown", "stopped_success", "stopped_single",
               "crashed"} => children = 0

C26_Witness_SecondChildAlone ==
    /\ spawned = 2
    /\ pc = "reading"
    /\ children = 1

StrippedLines == [i \in 1..(Len(log) - iter_start) |-> StripLine(log[iter_start + i])]

\* C28: the log only grows at its end: every step leaves what it held as a
\* prefix, a line read from the child is appended as read, and when the
\* detector is consulted after the exit of the child the log holds all lines
\* of the iteration and the line consulted is the last line of that log.
C28_LogAppendOnly ==
    [][/\ Len(log') >= Len(log)
       /\ SubSeq(log', 1, Len(log)) = log
       /\ (pc = "reading" /\ log' # log) =>
             \E line \in LoopLines :
                /\ log' = Append(log, line)
                /\ script # "claude_loop" =>
                      current_iteration_lines' =
                          Append(current_iteration_lines, StripLine(line))
       /\ (pc = "waiting" /\ pc' \notin {"waiting", "interrupted"}) =>
             /\ log' = log
             /\ script # "claude_loop" => current_iteration_lines = StrippedLines
             /\ failure' = "none" => last_line' = last_json_line(log)]_vars

C28_Witness_SecondIterationConsulted ==
    /\ spawned = 2
    /\ iter_start >= 1
    /\ Len(log) > iter_start + 1
    /\ pc = "cooldown"
    /\ last_line = log[Len(log)]

\* the usage carried by a sequence of lines, in the order of Totals
UsageOf(lines) ==
    <<SumUsage(lines, "input_tokens"), SumUsage(lines, "output_tokens"),
      SumUsage(lines, "cache_read_input_tokens"),
      SumCache(lines, "ephemeral_5m_input_tokens")
          + SumCache(lines, "ephemeral_1h_input_tokens")>>

\* the four totals shown by a snapshot
SnapshotTotals(snapshot) ==
    <<snapshot.tokens.input, snapshot.tokens.output, snapshot.tokens.cache_read,
      snapshot.tokens.cache_write>>

Stopped == {"stopped_success", "stopped_single"}

\* C31: in maker.py and fixer.py the usage of every line the child of an
\* iteration wrote is added to the totals in the step that follows the exit
\* of that child, before the completion check; the lines of an iteration are
\* the lines the log gained since that child was started, so no line is
\* counted twice and none is left out; no other step changes the totals; the
\* statistics printed when the loop is left show the totals so reached.
C31_UsageBeforeCompletionCheck ==
    [][script # "claude_loop" =>
          /\ (pc = "waiting" /\ pc' # "interrupted" /\ failure' = "none") =>
                /\ current_iteration_lines = StrippedLines
                /\ Totals(stats') =
                      [i \in 1..4 |-> Totals(stats)[i] + UsageOf(StrippedLines)[i]]
          /\ (pc # "waiting" \/ pc' = "interrupted") => Totals(stats') = Totals(stats)
          /\ iter_start' # iter_start => iter_start' = Len(log)
          /\ (pc' \in Stopped /\ pc \notin Stopped) =>
                SnapshotTotals(final_stats') = Totals(stats')
      ]_vars

C31_Witness_BothIterationsCounted ==
    /\ script = "maker"
    /\ pc = "stopped_success"
    /\ spawned = 2
    /\ log = <<LDone, LAssistant, LDone>>
    /\ iter_start = 2
    /\ SnapshotTotals(final_stats) = <<2, 4, 6, 8>>

\* C32: in maker.py and fixer.py the iteration counter is the number of
\* children started so far, whenever main() waits or has ended: 0 before the
\* first child, one more with each child and changed by nothing else; the
\* snapshot taken at the start of an iteration and the one taken when the
\* loop is left carry that same number.
C32_IterationsAreSpawns ==
    script # "claude_loop" =>
        /\ stats.iterations = spawned
        /\ spawned = 0 => current_stats = NoStats
        /\ spawned >= 1 => current_stats.iterations = spawned
        /\ pc \in Stopped => final_stats.iterations = spawned

C32_Witness_ThirdChildCompletes ==
    /\ script = "fixer"
    /\ pc = "stopped_success"
    /\ spawned = 3
    /\ children = 0
    /\ stats.iterations = 3
    /\ final_stats.iterations = 3

-----------------------------------------------------------------------------
(* Properties of the classifier (checked under SpecSummary) *)

\* the text of the first content item of an assistant record of TextLines
FirstTextOf(line) ==
    Get(line.json.f["message"].f["content"].items[1], "text", JStr(<<>>)).s

\* the summary without the two tokens that open it
SummaryBody == SubSeq(summary.s, 3, Len(summary.s))

\* the jq helper did what it was asked to do, or main() fell back to Python
JqAnswered == jq # "nonzero"

\* C21: for an assistant record whose first content item is a text, the
\* summary carries a prefix of at most 120 characters of the text; a text of
\* at most 120 characters is shown unchanged and without an ellipsis, and a
\* longer one is followed by the three characters of the ellipsis.  The
\* summary is produced whenever the jq helper does not end with a failure
\* status.
C21_PrefixOfAtMost120 ==
    (pc = "summarised" /\ last_line \in TextLines) =>
        /\ JqAnswered => summary.some
        /\ summary.some =>
              /\ SubSeq(summary.s, 1, 2) = <<"<robot>", " ">>
              /\ IF Len(FirstTextOf(last_line)) <= 120
                 THEN SummaryBody = FirstTextOf(last_line)
                 ELSE \E n \in 0..120 :
                         SummaryBody = Prefix(FirstTextOf(last_line), n) \o Ellipsis

C21_Witness_CutAt120 ==
    /\ pc = "summarised"
    /\ last_line = AssistantRecord(JList(<<TextContent(TextOfLen(121, {50}))>>))
    /\ summary.some
    /\ SummaryBody = TextOfLen(120, {50}) \o Ellipsis

\* C22 as stated: a text longer than 120 characters is cut at the last space
\* of its first 120 characters when that space is at offset 100 or later, and
\* at offset 120 otherwise.
C22_CutAtSpaceFrom100 ==
    (pc = "summarised" /\ last_line \in TextLines /\ summary.some
        /\ Len(FirstTextOf(last_line)) > 120) =>
        SummaryBody =
            (IF RFind(Prefix(FirstTextOf(last_line), 120), " ") >= 100
             THEN Prefix(FirstTextOf(last_line),
                         RFind(Prefix(FirstTextOf(last_line), 120), " "))
             ELSE Prefix(FirstTextOf(last_line), 120)) \o Ellipsis

\* C23: a tool use that is the only content item gives the tool summary and
\* a tool use followed by further items gives none; a user record gives
\* none; a system record gives a summary that ends with the length of its
\* tools array (0 without one); a record of another type gives none.  The
\* summaries are produced whenever the jq helper does not end with a failure
\* status.
C23_ByRecordType ==
    pc = "summarised" =>
        /\ last_line \in ToolAloneLines =>
              /\ JqAnswered => summary.some
              /\ summary.some => SubSeq(summary.s, 1, 2) = <<"<wrench>", " ">>
        /\ last_line \in ToolFollowedLines \cup UserLines \cup OtherTypeLines =>
              ~summary.some
        /\ \A c \in SystemCases :
              last_line = SystemRecord(c.fields) =>
                  /\ JqAnswered => summary.some
                  /\ summary.some =>
                        /\ SubSeq(summary.s, 1, 4) = <<"<gear>", " ", " ", "System">>
                        /\ \E subtype \in {<<"init">>, <<"unknown">>, <<"None">>} :
                              summary.s = System(subtype, c.count)

C23_Witness_TwelveTools ==
    /\ pc = "summarised"
    /\ jq = "ok"
    /\ summary = SText(System(<<"init">>, <<"1", "2">>))

\* C24 as stated: an assistant record whose first content item is neither a
\* text nor a tool use (or that has no content item) gives the placeholder,
\* with jq and with the Python fallback.
C24_PlaceholderInBothPaths ==
    (pc = "summarised" /\ last_line \in OtherAssistantLines /\ JqAnswered) =>
        summary = SText(Placeholder)

\* C25: extract_summary_with_jq returns a summary or nothing for every line
\* and every behaviour of the jq helper, and nothing for a line that is no
\* JSON.
C25_NeverRaises ==
    pc = "summarised" =>
        /\ summary.exc = "none"
        /\ failure = "none"
        /\ JsonLoads(last_line).k = "invalid" => ~summary.some

C25_Witness_WrongShapeInFallback ==
    /\ pc = "summarised"
    /\ jq = "timeout"
    /\ last_line = AssistantRecord(JInt(5))
    /\ FallbackData(JsonLoads(last_line)).exc = "TypeError"
    /\ summary = SNone

\* JSON objects whose fields have the shapes the agent gives them
WellShapedLines ==
    TextLines \cup ToolAloneLines \cup ToolFollowedLines \cup OtherAssistantLines
        \cup UserLines \cup SystemLines \cup OtherTypeLines

\* C33 as stated: for every JSON object line the summary obtained through the
\* fields jq extracts is the summary the Python fallback gives for the same
\* line, so that what is shown does not depend on jq being installed.
C33_SamePathsSameSummary ==
    (pc = "summarised" /\ jq = "ok" /\ last_line \in WellShapedLines) =>
        summary = FallbackPath(last_line)

-----------------------------------------------------------------------------
(* Properties of the two forms of the notice (checked under SpecDetect) *)

\* C30 as stated: in claude_loop.py an assistant record with a text item
\* that holds the limit-reached phrase and a reset hour still ahead today
\* yields the epoch of that hour, whether or not the record is also marked as
\* an error and carries a result; a record that is neither an error result
\* nor an assistant record yields no epoch.
C30_EitherFormIndependently ==
    (script = "claude_loop" /\ pc = "rate_limit_applied") =>
        \A c \in ResetsCases :
            /\ (/\ last_line \in {ResetsAssistantLine(c), ResetsAssistantErrorLine(c)}
                /\ c.h24 \in 0..23
                /\ TodayAt(c.h24) > clock) => reset_epoch = RSome(TodayAt(c.h24))
            /\ last_line \in ResetsPlainLines(c) => reset_epoch = RNone

-----------------------------------------------------------------------------
(* Properties of last_json_line (checked under SpecFile) *)

\* bytes i..j of s are a whole line with at least one byte, and only
\* newlines follow it
LastLineAt(s, i, j) ==
    /\ i <= j
    /\ \A k \in i..j : s[k] # "\n"
    /\ i = 1 \/ s[i - 1] = "\n"
    /\ \A k \in (j + 1)..Len(s) : s[k] = "\n"

\* C29: last_json_line returns the last line of the file that holds a byte
\* other than the newline, without a newline: newlines at the end of the file
\* are passed over however many there are, a line of spaces counts as a line,
\* and a file that is missing, empty or made of newlines gives the empty
\* string.
C29_LastNonEmptyLine ==
    pc = "line_read" =>
        IF log.exists /\ \E k \in 1..Len(log.bytes) : log.bytes[k] # "\n"
        THEN \E i, j \in 1..Len(log.bytes) :
                /\ LastLineAt(log.bytes, i, j)
                /\ last_line = SubSeq(log.bytes, i, j)
        ELSE last_line = <<>>

C29_Witness_LineOfSpaces ==
    /\ pc = "line_read"
    /\ log = [exists |-> TRUE, bytes |-> <<"x", "\n", " ", "\n">>]
    /\ last_line = <<" ">>

====
